---- MODULE Spec2Model ----
(***************************************************************************)
(* TerraGrid terrain computation engines: ContourEngine (contour.js) and   *)
(* AnalysisEngine (analysis.js), with Utils.round (utils.js).              *)
(*                                                                         *)
(* Numbers.  A JavaScript number is modelled as an exact rational <<n, d>> *)
(* in lowest terms with d > 0.  The non-finite results of a division by    *)
(* zero are <<1, 0>> (Infinity), <<-1, 0>> (-Infinity) and <<0, 0>> (NaN). *)
(* The absent sample (null) is <<0, -1>>.  Grids are indexed from 0 as in  *)
(* the source: grid[r][c] with 0 <= r < rows and 0 <= c < cols.            *)
(***************************************************************************)
EXTENDS Integers, Sequences, FiniteSets, TLC

VARIABLES grid, rows, cols, pts, segList, call, gc, Spreadsheet

vars == <<grid, rows, cols, pts, segList, call, gc, Spreadsheet>>

----------------------------------------------------------------------------
(* Exact rational arithmetic                                               *)

NULL == <<0, -1>>
NaN == <<0, 0>>
PosInf == <<1, 0>>
NegInf == <<-1, 0>>

Abs(i) == IF i < 0 THEN -i ELSE i

Sign(i) == IF i < 0 THEN -1 ELSE IF i > 0 THEN 1 ELSE 0

RECURSIVE GCD(_, _)
GCD(a, b) == IF b = 0 THEN a ELSE GCD(b, a % b)

(* Lowest terms, positive denominator.  den must not be 0.                 *)
Norm(num, den) ==
    IF den = 1 THEN <<num, 1>>
    ELSE LET g == GCD(Abs(num), Abs(den))
             s == IF den < 0 THEN -1 ELSE 1
         IN  <<(s * num) \div g, (s * den) \div g>>

R(i) == <<i, 1>>

Zero == R(0)

isFinite(x) == x[2] > 0

RNeg(x) == <<-x[1], x[2]>>

RAdd(x, y) ==
    IF x[2] = y[2] THEN Norm(x[1] + y[1], x[2])
    ELSE LET g == GCD(x[2], y[2])
         IN  Norm(x[1] * (y[2] \div g) + y[1] * (x[2] \div g), (x[2] \div g) * y[2])

RSub(x, y) == RAdd(x, RNeg(y))

RMul(x, y) ==
    IF x[1] = 0 \/ y[1] = 0 THEN Zero
    ELSE IF x[2] = 1 /\ y[2] = 1 THEN <<x[1] * y[1], 1>>
    ELSE LET g1 == GCD(Abs(x[1]), y[2])
             g2 == GCD(Abs(y[1]), x[2])
         IN  <<(x[1] \div g1) * (y[1] \div g2), (x[2] \div g2) * (y[2] \div g1)>>

(* JavaScript division of finite numbers: x/0 is Infinity, -Infinity or NaN *)
RDiv(x, y) ==
    IF y[1] = 0 THEN <<Sign(x[1]), 0>>
    ELSE RMul(x, <<Sign(y[1]) * y[2], Abs(y[1])>>)

RLt(x, y) ==
    IF x[2] = y[2] THEN x[1] < y[1] ELSE RSub(x, y)[1] < 0

RLe(x, y) ==
    IF x[2] = y[2] THEN x[1] <= y[1] ELSE RSub(x, y)[1] <= 0

RAbs(x) == <<Abs(x[1]), x[2]>>

(* Math.floor and Math.ceil of a finite number, as integers                *)
Floor(x) == x[1] \div x[2]

Ceil(x) == -((-x[1]) \div x[2])

(* Math.round: nearest integer, a tie goes towards +Infinity               *)
MathRound(x) == (2 * x[1] + x[2]) \div (2 * x[2])

RECURSIVE Pow10(_)
Pow10(n) == IF n = 0 THEN 1 ELSE 10 * Pow10(n - 1)

(* JavaScript null coerced to a number in arithmetic and comparisons       *)
ToNumber(v) == IF v = NULL THEN Zero ELSE v

----------------------------------------------------------------------------
(* ContourEngine: Marching Squares segment extraction                      *)

(* Mutant: case 10 pairs top with right and left with bottom               *)
MS_SEGMENTS_otherSaddle ==
    [i \in 0..15 |->
        CASE i = 0 -> <<>>
          [] i = 1 -> << <<3, 2>> >>
          [] i = 2 -> << <<2, 1>> >>
          [] i = 3 -> << <<3, 1>> >>
          [] i = 4 -> << <<0, 1>> >>
          [] i = 5 -> << <<3, 0>>, <<2, 1>> >>
          [] i = 6 -> << <<0, 2>> >>
          [] i = 7 -> << <<3, 0>> >>
          [] i = 8 -> << <<3, 0>> >>
          [] i = 9 -> << <<0, 2>> >>
          [] i = 10 -> << <<0, 1>>, <<3, 2>> >>
          [] i = 11 -> << <<0, 1>> >>
          [] i = 12 -> << <<3, 1>> >>
          [] i = 13 -> << <<2, 1>> >>
          [] i = 14 -> << <<3, 2>> >>
          [] i = 15 -> <<>>]

(* Case index -> edge pairs; edges 0 = top, 1 = right, 2 = bottom, 3 = left *)
MS_SEGMENTS ==
    [i \in 0..15 |->
        CASE i = 0 -> <<>>
          [] i = 1 -> << <<3, 2>> >>
          [] i = 2 -> << <<2, 1>> >>
          [] i = 3 -> << <<3, 1>> >>
          [] i = 4 -> << <<0, 1>> >>
          [] i = 5 -> << <<3, 0>>, <<2, 1>> >>
          [] i = 6 -> << <<0, 2>> >>
          [] i = 7 -> << <<3, 0>> >>
          [] i = 8 -> << <<3, 0>> >>
          [] i = 9 -> << <<0, 2>> >>
          [] i = 10 -> << <<0, 3>>, <<1, 2>> >>
          [] i = 11 -> << <<0, 1>> >>
          [] i = 12 -> << <<3, 1>> >>
          [] i = 13 -> << <<2, 1>> >>
          [] i = 14 -> << <<3, 2>> >>
          [] i = 15 -> <<>>]

(* Mutant: the crossing is put halfway along the edge, not interpolated    *)
edgeMidpoint_halfway(edge, v00, v10, v01, v11, level) ==
    CASE edge = 0 -> <<<<1, 2>>, R(0)>>
      [] edge = 1 -> <<R(1), <<1, 2>>>>
      [] edge = 2 -> <<<<1, 2>>, R(1)>>
      [] edge = 3 -> <<R(0), <<1, 2>>>>

(* Mutant: the fraction is taken upside down                               *)
edgeMidpoint_inverted(edge, v00, v10, v01, v11, level) ==
    CASE edge = 0 -> <<RDiv(RSub(v10, v00), RSub(level, v00)), R(0)>>
      [] edge = 1 -> <<R(1), RDiv(RSub(v11, v10), RSub(level, v10))>>
      [] edge = 2 -> <<RDiv(RSub(v11, v01), RSub(level, v01)), R(1)>>
      [] edge = 3 -> <<R(0), RDiv(RSub(v01, v00), RSub(level, v00))>>

(* Position of the crossing on an edge of the unit cell, as <<fx, fy>>     *)
edgeMidpoint(edge, v00, v10, v01, v11, level) ==
    CASE edge = 0 -> <<RDiv(RSub(level, v00), RSub(v10, v00)), R(0)>>
      [] edge = 1 -> <<R(1), RDiv(RSub(level, v10), RSub(v11, v10))>>
      [] edge = 2 -> <<RDiv(RSub(level, v01), RSub(v11, v01)), R(1)>>
      [] edge = 3 -> <<R(0), RDiv(RSub(level, v00), RSub(v01, v00))>>

(* v >= level ? 1 : 0                                                      *)
aboveBit(v, level) == IF RLe(level, v) THEN 1 ELSE 0

(* Mutant: the bottom-left corner weighs 2 and the bottom-right weighs 1   *)
caseIdx_bottomSwapped(v00, v10, v01, v11, level) ==
    aboveBit(v00, level) * 8 + aboveBit(v10, level) * 4
        + aboveBit(v01, level) * 2 + aboveBit(v11, level)

caseIdx(v00, v10, v01, v11, level) ==
    aboveBit(v00, level) * 8 + aboveBit(v10, level) * 4
        + aboveBit(v11, level) * 2 + aboveBit(v01, level)

(* The inner loop over the edge pairs of one cell: a pair with a           *)
(* non-finite coordinate is dropped, the others are shifted to the cell.   *)
RECURSIVE emitSegments(_, _, _, _, _, _, _, _)
emitSegments(segs, r, c, v00, v10, v01, v11, level) ==
    IF segs = <<>> THEN <<>>
    ELSE LET p1 == edgeMidpoint(Head(segs)[1], v00, v10, v01, v11, level)
             p2 == edgeMidpoint(Head(segs)[2], v00, v10, v01, v11, level)
             rest == emitSegments(Tail(segs), r, c, v00, v10, v01, v11, level)
         IN  IF ~isFinite(p1[1]) \/ ~isFinite(p1[2])
                \/ ~isFinite(p2[1]) \/ ~isFinite(p2[2])
             THEN rest
             ELSE << [x1 |-> RAdd(R(c), p1[1]), y1 |-> RAdd(R(r), p1[2]),
                      x2 |-> RAdd(R(c), p2[1]), y2 |-> RAdd(R(r), p2[2])] >>
                  \o rest

(* The body of the cell loop with all four corners read as numbers         *)
cellBody(r, c, v00, v10, v01, v11, level) ==
    emitSegments(MS_SEGMENTS[caseIdx(v00, v10, v01, v11, level)],
                 r, c, v00, v10, v01, v11, level)

(* Mutant: the null test forgets the bottom-right corner, whose null is    *)
(* then coerced to 0 by the comparisons and the arithmetic.                *)
cellSegments_skipV11(g, r, c, level) ==
    LET v00 == g[r][c]
        v10 == g[r][c + 1]
        v01 == g[r + 1][c]
        v11 == g[r + 1][c + 1]
    IN  IF v00 = NULL \/ v10 = NULL \/ v01 = NULL THEN <<>>
        ELSE cellBody(r, c, v00, v10, v01, ToNumber(v11), level)

(* One iteration of the cell loop: the segments cell (r, c) contributes    *)
cellSegments(g, r, c, level) ==
    LET v00 == g[r][c]
        v10 == g[r][c + 1]
        v01 == g[r + 1][c]
        v11 == g[r + 1][c + 1]
    IN  IF v00 = NULL \/ v10 = NULL \/ v01 = NULL \/ v11 = NULL THEN <<>>
        ELSE cellBody(r, c, v00, v10, v01, v11, level)

(* Mutant: the cell loop stops one row of cells short (r < rows - 2)       *)
RECURSIVE segmentsFrom_shortRows(_, _, _, _, _, _)
segmentsFrom_shortRows(g, nrows, ncols, level, r, c) ==
    IF r >= nrows - 2 THEN <<>>
    ELSE IF c >= ncols - 1 THEN segmentsFrom_shortRows(g, nrows, ncols, level, r + 1, 0)
    ELSE cellSegments(g, r, c, level)
            \o segmentsFrom_shortRows(g, nrows, ncols, level, r, c + 1)

(* for r in 0..rows-2, for c in 0..cols-2, from cell (r, c) onwards        *)
RECURSIVE segmentsFrom(_, _, _, _, _, _)
segmentsFrom(g, nrows, ncols, level, r, c) ==
    IF r >= nrows - 1 THEN <<>>
    ELSE IF c >= ncols - 1 THEN segmentsFrom(g, nrows, ncols, level, r + 1, 0)
    ELSE cellSegments(g, r, c, level)
            \o segmentsFrom(g, nrows, ncols, level, r, c + 1)

computeSegments(g, nrows, ncols, level) ==
    segmentsFrom(g, nrows, ncols, level, 0, 0)

----------------------------------------------------------------------------
(* ContourEngine: merging segments into polylines                          *)
(* Segments are numbered from 1 here (from 0 in the source).               *)

(* The default tolerance of mergeSegments, 1e-6                            *)
Tol == <<1, 1000000>>

(* Math.round(x / tol) * tol for both coordinates                          *)
key(x, y, tol) ==
    <<RMul(R(MathRound(RDiv(x, tol))), tol), RMul(R(MathRound(RDiv(y, tol))), tol)>>

(* adj.get(k): the (segment, end) entries filed under k, in insertion      *)
(* order: segment by segment, end 1 before end 2.                          *)
RECURSIVE adjGet(_, _, _, _)
adjGet(segments, tol, k, i) ==
    IF i > Len(segments) THEN <<>>
    ELSE LET s == segments[i]
         IN  (IF key(s.x1, s.y1, tol) = k THEN <<[segIdx |-> i, end |-> 1]>> ELSE <<>>)
             \o (IF key(s.x2, s.y2, tol) = k THEN <<[segIdx |-> i, end |-> 2]>> ELSE <<>>)
             \o adjGet(segments, tol, k, i + 1)

(* Mutant: the neighbours are tried from the last entry to the first       *)
RECURSIVE firstUnused_fromLast(_, _, _)
firstUnused_fromLast(neighbors, used, j) ==
    LET i == Len(neighbors) + 1 - j
    IN  IF j > Len(neighbors) THEN 0
        ELSE IF neighbors[i].segIdx \in used
             THEN firstUnused_fromLast(neighbors, used, j + 1)
        ELSE i

(* Mutant: only the first entry is tried                                   *)
RECURSIVE firstUnused_onlyFirstEntry(_, _, _)
firstUnused_onlyFirstEntry(neighbors, used, j) ==
    IF j > Len(neighbors) THEN 0
    ELSE IF neighbors[j].segIdx \in used THEN 0
    ELSE j

(* Position in neighbors of the first entry whose segment is unused, or 0  *)
RECURSIVE firstUnused(_, _, _)
firstUnused(neighbors, used, j) ==
    IF j > Len(neighbors) THEN 0
    ELSE IF neighbors[j].segIdx \in used THEN firstUnused(neighbors, used, j + 1)
    ELSE j

(* Mutant: the forward pass pushes the matched end of the next segment,    *)
(* not its far end                                                         *)
RECURSIVE extendForward_nearEnd(_, _, _, _)
extendForward_nearEnd(segments, tol, poly, used) ==
    LET last == poly[Len(poly)]
        neighbors == adjGet(segments, tol, key(last[1], last[2], tol), 1)
        j == firstUnused(neighbors, used, 1)
    IN  IF j = 0 THEN [pts |-> poly, used |-> used]
        ELSE LET seg == segments[neighbors[j].segIdx]
                 next == IF neighbors[j].end = 1 THEN <<seg.x1, seg.y1>>
                         ELSE <<seg.x2, seg.y2>>
             IN  extendForward_nearEnd(segments, tol, Append(poly, next),
                                       used \cup {neighbors[j].segIdx})

(* "Extend forward": follow unused segments from the last point            *)
RECURSIVE extendForward(_, _, _, _)
extendForward(segments, tol, poly, used) ==
    LET last == poly[Len(poly)]
        neighbors == adjGet(segments, tol, key(last[1], last[2], tol), 1)
        j == firstUnused(neighbors, used, 1)
    IN  IF j = 0 THEN [pts |-> poly, used |-> used]
        ELSE LET seg == segments[neighbors[j].segIdx]
                 next == IF neighbors[j].end = 1 THEN <<seg.x2, seg.y2>>
                         ELSE <<seg.x1, seg.y1>>
             IN  extendForward(segments, tol, Append(poly, next),
                               used \cup {neighbors[j].segIdx})

(* "Extend backward": follow unused segments from the first point          *)
RECURSIVE extendBackward(_, _, _, _)
extendBackward(segments, tol, poly, used) ==
    LET first == poly[1]
        neighbors == adjGet(segments, tol, key(first[1], first[2], tol), 1)
        j == firstUnused(neighbors, used, 1)
    IN  IF j = 0 THEN [pts |-> poly, used |-> used]
        ELSE LET seg == segments[neighbors[j].segIdx]
                 prev == IF neighbors[j].end = 2 THEN <<seg.x1, seg.y1>>
                         ELSE <<seg.x2, seg.y2>>
             IN  extendBackward(segments, tol, <<prev>> \o poly,
                                used \cup {neighbors[j].segIdx})

(* Mutant: the seed segment of a polyline is not marked used               *)
RECURSIVE mergeFrom_seedUnmarked(_, _, _, _)
mergeFrom_seedUnmarked(segments, tol, startIdx, used) ==
    IF startIdx > Len(segments) THEN <<>>
    ELSE IF startIdx \in used THEN mergeFrom_seedUnmarked(segments, tol, startIdx + 1, used)
    ELSE LET s0 == segments[startIdx]
             fwd == extendForward(segments, tol,
                                  << <<s0.x1, s0.y1>>, <<s0.x2, s0.y2>> >>,
                                  used)
             bwd == extendBackward(segments, tol, fwd.pts, fwd.used)
         IN  (IF Len(bwd.pts) >= 2 THEN <<bwd.pts>> ELSE <<>>)
             \o mergeFrom_seedUnmarked(segments, tol, startIdx + 1, bwd.used)

(* The loop over startIdx                                                  *)
RECURSIVE mergeFrom(_, _, _, _)
mergeFrom(segments, tol, startIdx, used) ==
    IF startIdx > Len(segments) THEN <<>>
    ELSE IF startIdx \in used THEN mergeFrom(segments, tol, startIdx + 1, used)
    ELSE LET s0 == segments[startIdx]
             fwd == extendForward(segments, tol,
                                  << <<s0.x1, s0.y1>>, <<s0.x2, s0.y2>> >>,
                                  used \cup {startIdx})
             bwd == extendBackward(segments, tol, fwd.pts, fwd.used)
         IN  (IF Len(bwd.pts) >= 2 THEN <<bwd.pts>> ELSE <<>>)
             \o mergeFrom(segments, tol, startIdx + 1, bwd.used)

mergeSegments(segments, tol) ==
    IF Len(segments) = 0 THEN <<>> ELSE mergeFrom(segments, tol, 1, {})

----------------------------------------------------------------------------
(* Utils.round and ContourEngine.generateContours                          *)

(* Mutant: the level is cut to 6 decimals (Math.floor) instead of rounded *)
round_floor(v, n) == RDiv(R(Floor(RMul(v, R(Pow10(n))))), R(Pow10(n)))

(* Utils.round(v, n) = Math.round(v * 10^n) / 10^n                         *)
round(v, n) == RDiv(R(MathRound(RMul(v, R(Pow10(n))))), R(Pow10(n)))

(* grid.flat().filter(v => v != null && !isNaN(v))                         *)
RECURSIVE flatFrom(_, _, _, _, _)
flatFrom(g, nrows, ncols, r, c) ==
    IF r >= nrows THEN <<>>
    ELSE IF c >= ncols THEN flatFrom(g, nrows, ncols, r + 1, 0)
    ELSE (IF g[r][c] # NULL /\ g[r][c] # NaN THEN <<g[r][c]>> ELSE <<>>)
            \o flatFrom(g, nrows, ncols, r, c + 1)

validValues(g, nrows, ncols) == flatFrom(g, nrows, ncols, 0, 0)

RECURSIVE MathMin(_)
MathMin(vals) ==
    IF Len(vals) = 1 THEN vals[1]
    ELSE LET m == MathMin(Tail(vals))
         IN  IF RLt(vals[1], m) THEN vals[1] ELSE m

RECURSIVE MathMax(_)
MathMax(vals) ==
    IF Len(vals) = 1 THEN vals[1]
    ELSE LET m == MathMax(Tail(vals))
         IN  IF RLt(m, vals[1]) THEN vals[1] ELSE m

(* JavaScript a % b for integers, b # 0: the sign follows the dividend     *)
JsRem(a, b) == Sign(a) * (Abs(a) % Abs(b))

(* Mutant: the remainder test forgets the sign of a negative level        *)
isMajorLevel_positiveOnly(level, interval, majorMultiplier) ==
    LET n == MathRound(RDiv(level, interval))
    IN  n >= 0 /\ n % majorMultiplier = 0

(* Math.round(level / interval) % majorMultiplier === 0                    *)
isMajorLevel(level, interval, majorMultiplier) ==
    JsRem(MathRound(RDiv(level, interval)), majorMultiplier) = 0

(* The activation record of generateContours before any call               *)
gcIdle ==
    [pc |-> "idle", interval |-> Zero, majorMultiplier |-> 0, maxV |-> Zero,
     startLevel |-> Zero, level |-> Zero, result |-> <<>>]

(* Mutant: the sample count test is off by one (vals.length < 3)         *)
generateContoursEnter_fewerThan3(g, nrows, ncols, interval, majorMultiplier) ==
    LET vals == validValues(g, nrows, ncols)
        base == [gcIdle EXCEPT !.interval = interval,
                               !.majorMultiplier = majorMultiplier]
    IN  IF nrows < 2 \/ ncols < 2 THEN [base EXCEPT !.pc = "done"]
        ELSE IF Len(vals) < 3 THEN [base EXCEPT !.pc = "done"]
        ELSE LET startLevel == RMul(R(Ceil(RDiv(MathMin(vals), interval))), interval)
             IN  [base EXCEPT !.pc = "loop", !.maxV = MathMax(vals),
                              !.startLevel = startLevel, !.level = startLevel]

(* The early returns and the loop's initialisation                         *)
generateContoursEnter(g, nrows, ncols, interval, majorMultiplier) ==
    LET vals == validValues(g, nrows, ncols)
        base == [gcIdle EXCEPT !.interval = interval,
                               !.majorMultiplier = majorMultiplier]
    IN  IF nrows < 2 \/ ncols < 2 THEN [base EXCEPT !.pc = "done"]
        ELSE IF Len(vals) < 4 THEN [base EXCEPT !.pc = "done"]
        ELSE LET startLevel == RMul(R(Ceil(RDiv(MathMin(vals), interval))), interval)
             IN  [base EXCEPT !.pc = "loop", !.maxV = MathMax(vals),
                              !.startLevel = startLevel, !.level = startLevel]

(* Mutant: a level is pushed whether or not it has polylines              *)
generateContoursBody_pushAlways(g, nrows, ncols, a) ==
    LET level == round(a.level, 6)
        segs == computeSegments(g, nrows, ncols, level)
        polylines == mergeSegments(segs, Tol)
        isMajor == isMajorLevel(level, a.interval, a.majorMultiplier)
    IN  [a EXCEPT !.level = RAdd(level, a.interval),
                  !.result = Append(@, [level |-> level, isMajor |-> isMajor,
                                        polylines |-> polylines])]

(* One iteration of the level loop, including the increment                *)
generateContoursBody(g, nrows, ncols, a) ==
    LET level == round(a.level, 6)
        segs == computeSegments(g, nrows, ncols, level)
        polylines == mergeSegments(segs, Tol)
        isMajor == isMajorLevel(level, a.interval, a.majorMultiplier)
    IN  [a EXCEPT !.level = RAdd(level, a.interval),
                  !.result = IF Len(polylines) > 0
                             THEN Append(@, [level |-> level, isMajor |-> isMajor,
                                             polylines |-> polylines])
                             ELSE @]

----------------------------------------------------------------------------
(* ContourEngine: polyline to SVG path                                     *)
(* A path string is modelled as its sequence of commands; a number printed *)
(* by toFixed(3) is modelled as its sign and its count of thousandths.     *)

(* x.toFixed(3): a tie goes away from zero, and a negative x that prints   *)
(* as zero keeps its minus sign                                            *)
toFixed3(x) ==
    [neg |-> x[1] < 0,
     milli |-> (2 * Abs(x[1]) * 1000 + x[2]) \div (2 * x[2])]

fmtPoint(p) == <<toFixed3(p[1]), toFixed3(p[2])>>

(* 'M' + pts.map(...).join('L')                                            *)
straightPath(poly) ==
    [i \in 1..Len(poly) |->
        [cmd |-> IF i = 1 THEN "M" ELSE "L", args |-> <<fmtPoint(poly[i])>>]]

(* Mutant: the second control point is put beyond p2, not before it       *)
controlPts_beyond(p0, p1, p2, p3, t) ==
    << RAdd(p1[1], RDiv(RMul(RSub(p2[1], p0[1]), t), R(6))),
       RAdd(p1[2], RDiv(RMul(RSub(p2[2], p0[2]), t), R(6))),
       RAdd(p2[1], RDiv(RMul(RSub(p3[1], p1[1]), t), R(6))),
       RAdd(p2[2], RDiv(RMul(RSub(p3[2], p1[2]), t), R(6))) >>

controlPts(p0, p1, p2, p3, t) ==
    << RAdd(p1[1], RDiv(RMul(RSub(p2[1], p0[1]), t), R(6))),
       RAdd(p1[2], RDiv(RMul(RSub(p2[2], p0[2]), t), R(6))),
       RSub(p2[1], RDiv(RMul(RSub(p3[1], p1[1]), t), R(6))),
       RSub(p2[2], RDiv(RMul(RSub(p3[2], p1[2]), t), R(6))) >>

IntMax(a, b) == IF a > b THEN a ELSE b

IntMin(a, b) == IF a < b THEN a ELSE b

(* The cubic piece from poly[i] to poly[i + 1] (points numbered from 1)    *)
curvePiece(poly, i, smoothing) ==
    LET n == Len(poly)
        p0 == poly[IntMax(1, i - 1)]
        p1 == poly[i]
        p2 == poly[i + 1]
        p3 == poly[IntMin(n, i + 2)]
        cp == controlPts(p0, p1, p2, p3, RMul(smoothing, R(6)))
    IN  [cmd |-> "C",
         args |-> <<fmtPoint(<<cp[1], cp[2]>>), fmtPoint(<<cp[3], cp[4]>>),
                    fmtPoint(p2)>>]

smoothPath(poly, smoothing) ==
    <<[cmd |-> "M", args |-> <<fmtPoint(poly[1])>>]>>
        \o [i \in 1..(Len(poly) - 1) |-> curvePiece(poly, i, smoothing)]

(* Mutant: the straight path is taken only when both tests hold            *)
polylineToPath_bothTests(poly, smoothing) ==
    IF Len(poly) < 2 THEN <<>>
    ELSE IF Len(poly) = 2 /\ smoothing = Zero THEN straightPath(poly)
    ELSE smoothPath(poly, smoothing)

polylineToPath(poly, smoothing) ==
    IF Len(poly) < 2 THEN <<>>
    ELSE IF Len(poly) = 2 \/ smoothing = Zero THEN straightPath(poly)
    ELSE smoothPath(poly, smoothing)

----------------------------------------------------------------------------
(* AnalysisEngine                                                          *)
(* A square root is kept exact: <<n, d, 2>> with d > 0 stands for the real *)
(* number sign(n) * sqrt(|n| / d), which orders as its signed radicand     *)
(* n / d.  MathSqrt and SRootTimes keep the radicand in lowest terms.      *)

SRoot(q) == <<q[1], q[2], 2>>

Radicand(x) == <<x[1], x[2]>>

(* Math.sqrt of a finite number >= 0                                       *)
MathSqrt(q) == SRoot(q)

(* A root times a positive rational                                        *)
SRootTimes(x, k) == SRoot(RMul(Radicand(x), RMul(k, k)))

(* A rational divided by a positive root (radicand not reduced: the        *)
(* quotient is only ever compared)                                         *)
DivBySRoot(a, x) == <<a[1] * Abs(a[1]) * x[2], a[2] * a[2] * x[1], 2>>

(* x > y for two roots                                                     *)
SRootGt(x, y) == x[1] * y[2] > y[1] * x[2]

(* Mutant: the vertical axis overwrites valid instead of leaving it alone  *)
slopeAt_lastAxisWins(g, nrows, ncols, spacing, r, c) ==
    LET left == IF c > 0 THEN g[r][c - 1] ELSE NULL
        right == IF c < ncols - 1 THEN g[r][c + 1] ELSE NULL
        up == IF r > 0 THEN g[r - 1][c] ELSE NULL
        down == IF r < nrows - 1 THEN g[r + 1][c] ELSE NULL
        x == IF left # NULL /\ right # NULL
                THEN [d |-> RDiv(RSub(right, left), RMul(R(2), spacing)), valid |-> TRUE]
             ELSE IF right # NULL /\ g[r][c] # NULL
                THEN [d |-> RDiv(RSub(right, g[r][c]), spacing), valid |-> TRUE]
             ELSE IF left # NULL /\ g[r][c] # NULL
                THEN [d |-> RDiv(RSub(g[r][c], left), spacing), valid |-> TRUE]
             ELSE [d |-> Zero, valid |-> FALSE]
        y == IF up # NULL /\ down # NULL
                THEN [d |-> RDiv(RSub(down, up), RMul(R(2), spacing)), valid |-> TRUE]
             ELSE IF down # NULL /\ g[r][c] # NULL
                THEN [d |-> RDiv(RSub(down, g[r][c]), spacing), valid |-> TRUE]
             ELSE IF up # NULL /\ g[r][c] # NULL
                THEN [d |-> RDiv(RSub(g[r][c], up), spacing), valid |-> TRUE]
             ELSE [d |-> Zero, valid |-> FALSE]
    IN  IF y.valid /\ g[r][c] # NULL
        THEN SRootTimes(MathSqrt(RAdd(RMul(x.d, x.d), RMul(y.d, y.d))), R(100))
        ELSE NULL

(* Mutant: the central difference divides by spacing, not 2 * spacing     *)
slopeAt_centralOverSpacing(g, nrows, ncols, spacing, r, c) ==
    LET left == IF c > 0 THEN g[r][c - 1] ELSE NULL
        right == IF c < ncols - 1 THEN g[r][c + 1] ELSE NULL
        up == IF r > 0 THEN g[r - 1][c] ELSE NULL
        down == IF r < nrows - 1 THEN g[r + 1][c] ELSE NULL
        x == IF left # NULL /\ right # NULL
                THEN [d |-> RDiv(RSub(right, left), spacing), valid |-> TRUE]
             ELSE IF right # NULL /\ g[r][c] # NULL
                THEN [d |-> RDiv(RSub(right, g[r][c]), spacing), valid |-> TRUE]
             ELSE IF left # NULL /\ g[r][c] # NULL
                THEN [d |-> RDiv(RSub(g[r][c], left), spacing), valid |-> TRUE]
             ELSE [d |-> Zero, valid |-> FALSE]
        y == IF up # NULL /\ down # NULL
                THEN [d |-> RDiv(RSub(down, up), spacing), valid |-> x.valid]
             ELSE IF down # NULL /\ g[r][c] # NULL
                THEN [d |-> RDiv(RSub(down, g[r][c]), spacing), valid |-> x.valid]
             ELSE IF up # NULL /\ g[r][c] # NULL
                THEN [d |-> RDiv(RSub(g[r][c], up), spacing), valid |-> x.valid]
             ELSE [d |-> Zero, valid |-> FALSE]
    IN  IF y.valid /\ g[r][c] # NULL
        THEN SRootTimes(MathSqrt(RAdd(RMul(x.d, x.d), RMul(y.d, y.d))), R(100))
        ELSE NULL

(* Mutant: a derivative on either axis is enough for a value (|| for &&)   *)
slopeAt_eitherAxis(g, nrows, ncols, spacing, r, c) ==
    LET left == IF c > 0 THEN g[r][c - 1] ELSE NULL
        right == IF c < ncols - 1 THEN g[r][c + 1] ELSE NULL
        up == IF r > 0 THEN g[r - 1][c] ELSE NULL
        down == IF r < nrows - 1 THEN g[r + 1][c] ELSE NULL
        x == IF left # NULL /\ right # NULL
                THEN [d |-> RDiv(RSub(right, left), RMul(R(2), spacing)), valid |-> TRUE]
             ELSE IF right # NULL /\ g[r][c] # NULL
                THEN [d |-> RDiv(RSub(right, g[r][c]), spacing), valid |-> TRUE]
             ELSE IF left # NULL /\ g[r][c] # NULL
                THEN [d |-> RDiv(RSub(g[r][c], left), spacing), valid |-> TRUE]
             ELSE [d |-> Zero, valid |-> FALSE]
        y == IF up # NULL /\ down # NULL
                THEN [d |-> RDiv(RSub(down, up), RMul(R(2), spacing)), valid |-> TRUE]
             ELSE IF down # NULL /\ g[r][c] # NULL
                THEN [d |-> RDiv(RSub(down, g[r][c]), spacing), valid |-> TRUE]
             ELSE IF up # NULL /\ g[r][c] # NULL
                THEN [d |-> RDiv(RSub(g[r][c], up), spacing), valid |-> TRUE]
             ELSE [d |-> Zero, valid |-> x.valid]
    IN  IF y.valid /\ g[r][c] # NULL
        THEN SRootTimes(MathSqrt(RAdd(RMul(x.d, x.d), RMul(y.d, y.d))), R(100))
        ELSE NULL

(* The value slopes[r][c] is left with by one iteration of the point loop  *)
slopeAt(g, nrows, ncols, spacing, r, c) ==
    LET left == IF c > 0 THEN g[r][c - 1] ELSE NULL
        right == IF c < ncols - 1 THEN g[r][c + 1] ELSE NULL
        up == IF r > 0 THEN g[r - 1][c] ELSE NULL
        down == IF r < nrows - 1 THEN g[r + 1][c] ELSE NULL
        x == IF left # NULL /\ right # NULL
                THEN [d |-> RDiv(RSub(right, left), RMul(R(2), spacing)), valid |-> TRUE]
             ELSE IF right # NULL /\ g[r][c] # NULL
                THEN [d |-> RDiv(RSub(right, g[r][c]), spacing), valid |-> TRUE]
             ELSE IF left # NULL /\ g[r][c] # NULL
                THEN [d |-> RDiv(RSub(g[r][c], left), spacing), valid |-> TRUE]
             ELSE [d |-> Zero, valid |-> FALSE]
        y == IF up # NULL /\ down # NULL
                THEN [d |-> RDiv(RSub(down, up), RMul(R(2), spacing)), valid |-> x.valid]
             ELSE IF down # NULL /\ g[r][c] # NULL
                THEN [d |-> RDiv(RSub(down, g[r][c]), spacing), valid |-> x.valid]
             ELSE IF up # NULL /\ g[r][c] # NULL
                THEN [d |-> RDiv(RSub(g[r][c], up), spacing), valid |-> x.valid]
             ELSE [d |-> Zero, valid |-> FALSE]
    IN  IF y.valid /\ g[r][c] # NULL
        THEN SRootTimes(MathSqrt(RAdd(RMul(x.d, x.d), RMul(y.d, y.d))), R(100))
        ELSE NULL

computeSlope(g, nrows, ncols, spacing) ==
    [r \in 0..(nrows - 1) |->
        [c \in 0..(ncols - 1) |-> slopeAt(g, nrows, ncols, spacing, r, c)]]

(* Math.atan2(y, x) for y, x in -1..1, as a rational multiple of pi        *)
atan2(y, x) ==
    CASE y = 0 /\ x >= 0 -> R(0)
      [] y = 0 /\ x < 0 -> R(1)
      [] y > 0 /\ x > 0 -> <<1, 4>>
      [] y > 0 /\ x = 0 -> <<1, 2>>
      [] y > 0 /\ x < 0 -> <<3, 4>>
      [] y < 0 /\ x > 0 -> <<-1, 4>>
      [] y < 0 /\ x = 0 -> <<-1, 2>>
      [] y < 0 /\ x < 0 -> <<-3, 4>>

(* The offsets in scan order: dr = -1..1 outer, dc = -1..1 inner           *)
scanOrder ==
    << <<-1, -1>>, <<-1, 0>>, <<-1, 1>>, <<0, -1>>, <<0, 0>>, <<0, 1>>,
       <<1, -1>>, <<1, 0>>, <<1, 1>> >>

(* Mutant: a neighbour of equal drop replaces the best so far (>=)         *)
scanStep_lastTieWins(g, nrows, ncols, spacing, r, c, dr, dc, best) ==
    IF dr = 0 /\ dc = 0 THEN best
    ELSE IF r + dr < 0 \/ r + dr >= nrows \/ c + dc < 0 \/ c + dc >= ncols THEN best
    ELSE IF g[r + dr][c + dc] = NULL THEN best
    ELSE LET dist == SRootTimes(MathSqrt(R(dr * dr + dc * dc)), spacing)
             drop == DivBySRoot(RSub(g[r][c], g[r + dr][c + dc]), dist)
         IN  IF ~SRootGt(best.minDrop, drop)
             THEN [minDrop |-> drop, minDr |-> dr, minDc |-> dc]
             ELSE best

(* Mutant: the drop is taken over spacing alone, a diagonal neighbour      *)
(* counting as near as an orthogonal one                                   *)
scanStep_sameDistance(g, nrows, ncols, spacing, r, c, dr, dc, best) ==
    IF dr = 0 /\ dc = 0 THEN best
    ELSE IF r + dr < 0 \/ r + dr >= nrows \/ c + dc < 0 \/ c + dc >= ncols THEN best
    ELSE IF g[r + dr][c + dc] = NULL THEN best
    ELSE LET dist == SRootTimes(MathSqrt(R(1)), spacing)
             drop == DivBySRoot(RSub(g[r][c], g[r + dr][c + dc]), dist)
         IN  IF SRootGt(drop, best.minDrop)
             THEN [minDrop |-> drop, minDr |-> dr, minDc |-> dc]
             ELSE best

(* Mutant: the drop is taken from the neighbour to the point               *)
scanStep_uphill(g, nrows, ncols, spacing, r, c, dr, dc, best) ==
    IF dr = 0 /\ dc = 0 THEN best
    ELSE IF r + dr < 0 \/ r + dr >= nrows \/ c + dc < 0 \/ c + dc >= ncols THEN best
    ELSE IF g[r + dr][c + dc] = NULL THEN best
    ELSE LET dist == SRootTimes(MathSqrt(R(dr * dr + dc * dc)), spacing)
             drop == DivBySRoot(RSub(g[r + dr][c + dc], g[r][c]), dist)
         IN  IF SRootGt(drop, best.minDrop)
             THEN [minDrop |-> drop, minDr |-> dr, minDc |-> dc]
             ELSE best

(* The body of the neighbour loops for offset (dr, dc): the best so far   *)
(* after this neighbour                                                    *)
scanStep(g, nrows, ncols, spacing, r, c, dr, dc, best) ==
    IF dr = 0 /\ dc = 0 THEN best
    ELSE IF r + dr < 0 \/ r + dr >= nrows \/ c + dc < 0 \/ c + dc >= ncols THEN best
    ELSE IF g[r + dr][c + dc] = NULL THEN best
    ELSE LET dist == SRootTimes(MathSqrt(R(dr * dr + dc * dc)), spacing)
             drop == DivBySRoot(RSub(g[r][c], g[r + dr][c + dc]), dist)
         IN  IF SRootGt(drop, best.minDrop)
             THEN [minDrop |-> drop, minDr |-> dr, minDc |-> dc]
             ELSE best

(* The value flow[r][c] is left with by one iteration of the point loop    *)
flowAt(g, nrows, ncols, spacing, r, c) ==
    IF g[r][c] = NULL THEN NULL
    ELSE LET RECURSIVE scan(_, _)
             scan(i, best) ==
                 IF i > Len(scanOrder) THEN best
                 ELSE scan(i + 1, scanStep(g, nrows, ncols, spacing, r, c,
                                           scanOrder[i][1], scanOrder[i][2], best))
             found == scan(1, [minDrop |-> SRoot(Zero), minDr |-> 0, minDc |-> 0])
         IN  IF SRootGt(found.minDrop, SRoot(Zero))
             THEN atan2(found.minDr, found.minDc)
             ELSE NULL

computeFlowDirection(g, nrows, ncols, spacing) ==
    [r \in 0..(nrows - 1) |->
        [c \in 0..(ncols - 1) |-> flowAt(g, nrows, ncols, spacing, r, c)]]

(* Mutant: the null test looks at the first three corners only            *)
RECURSIVE cutFillFrom_threeCorners(_, _, _, _, _, _, _, _)
cutFillFrom_threeCorners(g, nrows, ncols, cellArea, datum, r, c, acc) ==
    IF r >= nrows - 1 THEN acc
    ELSE IF c >= ncols - 1 THEN cutFillFrom_threeCorners(g, nrows, ncols, cellArea, datum, r + 1, 0, acc)
    ELSE LET vs == <<g[r][c], g[r][c + 1], g[r + 1][c], ToNumber(g[r + 1][c + 1])>>
         IN  IF \E k \in 1..3 : vs[k] = NULL
             THEN cutFillFrom_threeCorners(g, nrows, ncols, cellArea, datum, r, c + 1, acc)
             ELSE LET avg == RDiv(RAdd(RAdd(RAdd(RAdd(Zero, vs[1]), vs[2]), vs[3]), vs[4]),
                                  R(4))
                      diff == RSub(avg, datum)
                      vol == RMul(RAbs(diff), cellArea)
                  IN  cutFillFrom_threeCorners(g, nrows, ncols, cellArea, datum, r, c + 1,
                                  IF RLt(Zero, diff)
                                  THEN [acc EXCEPT !.cutVol = RAdd(@, vol)]
                                  ELSE [acc EXCEPT !.fillVol = RAdd(@, vol)])

(* Mutant: the volume of a cell keeps the sign of diff (no Math.abs)       *)
RECURSIVE cutFillFrom_signedVolume(_, _, _, _, _, _, _, _)
cutFillFrom_signedVolume(g, nrows, ncols, cellArea, datum, r, c, acc) ==
    IF r >= nrows - 1 THEN acc
    ELSE IF c >= ncols - 1 THEN cutFillFrom_signedVolume(g, nrows, ncols, cellArea, datum, r + 1, 0, acc)
    ELSE LET vs == <<g[r][c], g[r][c + 1], g[r + 1][c], g[r + 1][c + 1]>>
         IN  IF \E k \in 1..4 : vs[k] = NULL
             THEN cutFillFrom_signedVolume(g, nrows, ncols, cellArea, datum, r, c + 1, acc)
             ELSE LET avg == RDiv(RAdd(RAdd(RAdd(RAdd(Zero, vs[1]), vs[2]), vs[3]), vs[4]),
                                  R(4))
                      diff == RSub(avg, datum)
                      vol == RMul(diff, cellArea)
                  IN  cutFillFrom_signedVolume(g, nrows, ncols, cellArea, datum, r, c + 1,
                                  IF RLt(Zero, diff)
                                  THEN [acc EXCEPT !.cutVol = RAdd(@, vol)]
                                  ELSE [acc EXCEPT !.fillVol = RAdd(@, vol)])

(* Mutant: diff is datum - avg, so cut and fill change places              *)
RECURSIVE cutFillFrom_reversedDiff(_, _, _, _, _, _, _, _)
cutFillFrom_reversedDiff(g, nrows, ncols, cellArea, datum, r, c, acc) ==
    IF r >= nrows - 1 THEN acc
    ELSE IF c >= ncols - 1 THEN cutFillFrom_reversedDiff(g, nrows, ncols, cellArea, datum, r + 1, 0, acc)
    ELSE LET vs == <<g[r][c], g[r][c + 1], g[r + 1][c], g[r + 1][c + 1]>>
         IN  IF \E k \in 1..4 : vs[k] = NULL
             THEN cutFillFrom_reversedDiff(g, nrows, ncols, cellArea, datum, r, c + 1, acc)
             ELSE LET avg == RDiv(RAdd(RAdd(RAdd(RAdd(Zero, vs[1]), vs[2]), vs[3]), vs[4]),
                                  R(4))
                      diff == RSub(datum, avg)
                      vol == RMul(RAbs(diff), cellArea)
                  IN  cutFillFrom_reversedDiff(g, nrows, ncols, cellArea, datum, r, c + 1,
                                  IF RLt(Zero, diff)
                                  THEN [acc EXCEPT !.cutVol = RAdd(@, vol)]
                                  ELSE [acc EXCEPT !.fillVol = RAdd(@, vol)])

(* The cell loop from cell (r, c) onwards with the volumes so far          *)
RECURSIVE cutFillFrom(_, _, _, _, _, _, _, _)
cutFillFrom(g, nrows, ncols, cellArea, datum, r, c, acc) ==
    IF r >= nrows - 1 THEN acc
    ELSE IF c >= ncols - 1 THEN cutFillFrom(g, nrows, ncols, cellArea, datum, r + 1, 0, acc)
    ELSE LET vs == <<g[r][c], g[r][c + 1], g[r + 1][c], g[r + 1][c + 1]>>
         IN  IF \E k \in 1..4 : vs[k] = NULL
             THEN cutFillFrom(g, nrows, ncols, cellArea, datum, r, c + 1, acc)
             ELSE LET avg == RDiv(RAdd(RAdd(RAdd(RAdd(Zero, vs[1]), vs[2]), vs[3]), vs[4]),
                                  R(4))
                      diff == RSub(avg, datum)
                      vol == RMul(RAbs(diff), cellArea)
                  IN  cutFillFrom(g, nrows, ncols, cellArea, datum, r, c + 1,
                                  IF RLt(Zero, diff)
                                  THEN [acc EXCEPT !.cutVol = RAdd(@, vol)]
                                  ELSE [acc EXCEPT !.fillVol = RAdd(@, vol)])

computeCutFill(g, nrows, ncols, spacing, datum) ==
    LET acc == cutFillFrom(g, nrows, ncols, RMul(spacing, spacing), datum, 0, 0,
                           [cutVol |-> Zero, fillVol |-> Zero])
    IN  [cutVol |-> acc.cutVol, fillVol |-> acc.fillVol,
         netVol |-> RSub(acc.cutVol, acc.fillVol)]

----------------------------------------------------------------------------
(* Inputs                                                                  *)

(* Largest number of samples (rows * cols) of a grid, per specification    *)
SegMaxCells == 6
ContourMaxCells == 4

(* Most contour levels a result is let to hold                             *)
MaxLevels == 6

(* One millionth, the resolution of Utils.round(level, 6)                  *)
Micro == <<1, 1000000>>

(* Elevations and levels for computeSegments                               *)
SegElevs == {R(0), R(1), R(2)}
SegLevels == {R(0), <<1, 3>>, R(1), <<3, 2>>, R(2), R(3)}

(* Elevations for generateContours lie a few millionths apart, so that the *)
(* 6-decimal rounding of the level takes part within few loop iterations.  *)
ContourElevs == {RMul(R(i), Micro) : i \in -3..2}
Intervals == {Micro, RMul(R(2), Micro), RMul(<<3, 2>>, Micro), RMul(<<1, 4>>, Micro)}
MajorMultipliers == {1, 2, 3}

(* Elevations of steep relief: low ground two thousand below the high      *)
(* ground, which is either on the level 0 or half a thousandth above it,   *)
(* so that the level crosses an edge from high to low ground either at the *)
(* grid point or less than the merge tolerance away from it                *)
ReliefMaxSide == 3
ReliefLow == <<-3999999, 2000>>
ReliefHighs == {R(0), <<1, 2000>>}
ReliefIntervals == {R(2000)}

(* The intervals a grid is contoured with are in the scale of its          *)
(* elevations, so that a call goes through few levels                      *)
IntervalsFor(g, nrows, ncols) ==
    IF \E r \in 0..(nrows - 1), c \in 0..(ncols - 1) :
          g[r][c] # NULL /\ RLe(R(1), RAbs(g[r][c]))
    THEN ReliefIntervals
    ELSE Intervals

(* Longest point list handed to polylineToPath                            *)
MaxPts == 3

PathCoords == {R(0), <<1, 3>>, <<1, 2000>>, R(2)}
Smoothings == {R(0), <<1, 2>>, R(1)}

RECURSIVE SeqsUpTo(_, _)
SeqsUpTo(S, n) ==
    IF n = 0 THEN {<<>>}
    ELSE LET shorter == SeqsUpTo(S, n - 1)
         IN  shorter \cup {Append(q, x) : q \in {t \in shorter : Len(t) = n - 1}, x \in S}

(* Largest number of rows and of columns of a grid for the slope and flow *)
(* fields, and largest number of samples of a grid for the volumes         *)
MaxSide == 3
CutFillMaxCells == 8

(* Most absent samples of a grid for the flow field                        *)
FlowMaxAbsent == 1

AnalysisElevs == {R(0), R(1), R(2)}
Spacings == {R(1), R(2)}
Datums == {R(-1), <<3, 4>>, R(3)}

(* Largest number of rows and of columns of a planar grid, and the rises   *)
(* per row and per column and the corner elevations such grids are built   *)
(* from, in halves and quarters of a millionth                             *)
PlanarMaxSide == 3

PlanarRises == {RMul(<<k, 2>>, Micro) : k \in {-2, 0, 1, 2}}
PlanarBases == {RMul(<<k, 4>>, Micro) : k \in {-4, 0, 1, 2}}

(* Longest segment list handed to mergeSegments                            *)
MaxSegs == 3

(* End points of the segments handed to mergeSegments: (1, 0) and          *)
(* (1.0000002, 0) differ but round to the same key at the tolerance 1e-6   *)
MergePoints ==
    {<<R(0), R(0)>>, <<R(1), R(0)>>, <<<<5000001, 5000000>>, R(0)>>, <<R(0), R(1)>>}

MergeSegs ==
    {[x1 |-> p[1], y1 |-> p[2], x2 |-> q[1], y2 |-> q[2]] :
        p \in MergePoints, q \in MergePoints}

(* End points and segments for junctions, with one more point so that     *)
(* three segments can come to one point from three different places        *)
JunctionPoints == MergePoints \cup {<<R(1), R(1)>>}

JunctionSegs ==
    {[x1 |-> p[1], y1 |-> p[2], x2 |-> q[1], y2 |-> q[2]] :
        p \in JunctionPoints, q \in JunctionPoints}

(* Longest segment list for the closed loops handed to mergeSegments; the   *)
(* segments have two different end points                                  *)
LoopMaxSegs == 4

LoopSegs == {s \in JunctionSegs : <<s.x1, s.y1>> # <<s.x2, s.y2>>}

Shapes(maxCells) ==
    {sh \in (1..maxCells) \X (1..maxCells) : sh[1] * sh[2] <= maxCells}

GridsOfShape(sh, elevs) ==
    [0..(sh[1] - 1) -> [0..(sh[2] - 1) -> elevs \cup {NULL}]]

(* The Spreadsheet module before its init: rows = 0, cols = 0, grid = []   *)
noSpreadsheet == [rows |-> 0, cols |-> 0, grid |-> <<>>]

noCall == [fn |-> "none"]

InitGrid(maxCells, elevs) ==
    /\ \E sh \in Shapes(maxCells) :
          /\ rows = sh[1]
          /\ cols = sh[2]
          /\ grid \in GridsOfShape(sh, elevs)
    /\ pts = <<>>
    /\ segList = <<>>
    /\ call = noCall
    /\ gc = gcIdle
    /\ Spreadsheet = noSpreadsheet

----------------------------------------------------------------------------
(* What a call leaves in the array it was handed.  No function of either   *)
(* engine assigns to an element of an argument, pushes to one, sorts or    *)
(* splices one: every store goes to an array the call has created.         *)

(* segments is a new array (line 59) and takes every push (line 87)        *)
gridAfterComputeSegments(g, ret) == g

(* used, adj, pts and polylines are new (lines 110-111, 124, 130); the     *)
(* points pushed are new pairs built from the segments' numbers (line 137) *)
segmentsAfterMergeSegments(segs, ret) == segs

(* pts.map builds a new array (line 194); the loop only reads pts[i]       *)
ptsAfterPolylineToPath(poly, ret) == poly

(* vals is the copy made by grid.flat().filter(...) (line 227)             *)
gridAfterGenerateContours(g) == g

(* Mutant: slopes is the grid itself instead of a new array                *)
gridAfterComputeSlope_inPlace(g, ret) == ret

(* slopes is a new rows x cols array (line 20) and takes the stores of     *)
(* line 49                                                                 *)
gridAfterComputeSlope(g, ret) == g

(* flow is a new rows x cols array (line 61) and takes the stores of       *)
(* line 86                                                                 *)
gridAfterComputeFlowDirection(g, ret) == g

(* vs is a new 4-element array per cell (line 104); the sums are locals    *)
gridAfterComputeCutFill(g, ret) == g

----------------------------------------------------------------------------
(* Calls of the contour engine                                             *)
(* The program is single-threaded and every function is called on its own, *)
(* to completion: a state holds the outcome of at most one function, in    *)
(* call for the one-step functions and in gc for generateContours, which   *)
(* may be called again once it has returned.                               *)

ComputeSegments ==
    /\ call = noCall
    /\ gc.pc = "idle"
    /\ \E level \in SegLevels :
          call' = [fn |-> "computeSegments", level |-> level,
                   ret |-> computeSegments(grid, rows, cols, level)]
    /\ grid' = gridAfterComputeSegments(grid, call'.ret)
    /\ UNCHANGED <<rows, cols, pts, segList, gc, Spreadsheet>>

GenerateContours ==
    /\ call = noCall
    /\ gc.pc \in {"idle", "done"}
    /\ \E interval \in IntervalsFor(grid, rows, cols),
          majorMultiplier \in MajorMultipliers :
          gc' = generateContoursEnter(grid, rows, cols, interval, majorMultiplier)
    /\ grid' = gridAfterGenerateContours(grid)
    /\ UNCHANGED <<rows, cols, pts, segList, call, Spreadsheet>>

GenerateContoursLoop ==
    /\ gc.pc = "loop"
    /\ RLe(gc.level, gc.maxV)
    /\ Len(gc.result) < MaxLevels
    /\ gc' = generateContoursBody(grid, rows, cols, gc)
    /\ UNCHANGED <<grid, rows, cols, pts, segList, call, Spreadsheet>>

GenerateContoursReturn ==
    /\ gc.pc = "loop"
    /\ ~RLe(gc.level, gc.maxV)
    /\ gc' = [gc EXCEPT !.pc = "done"]
    /\ UNCHANGED <<grid, rows, cols, pts, segList, call, Spreadsheet>>

MergeSegments ==
    /\ call = noCall
    /\ gc.pc = "idle"
    /\ call' = [fn |-> "mergeSegments", ret |-> mergeSegments(segList, Tol)]
    /\ segList' = segmentsAfterMergeSegments(segList, call'.ret)
    /\ UNCHANGED <<grid, rows, cols, pts, gc, Spreadsheet>>

InitMerge ==
    /\ rows = 0
    /\ cols = 0
    /\ grid = <<>>
    /\ pts = <<>>
    /\ segList \in SeqsUpTo(MergeSegs, MaxSegs)
    /\ call = noCall
    /\ gc = gcIdle
    /\ Spreadsheet = noSpreadsheet

NextMerge == MergeSegments

SpecMerge == InitMerge /\ [][NextMerge]_vars

InitJunction ==
    /\ rows = 0
    /\ cols = 0
    /\ grid = <<>>
    /\ pts = <<>>
    /\ segList \in SeqsUpTo(JunctionSegs, MaxSegs)
    /\ call = noCall
    /\ gc = gcIdle
    /\ Spreadsheet = noSpreadsheet

SpecJunction == InitJunction /\ [][NextMerge]_vars

(* The end points of the segments                                          *)
EndPoints(segs) ==
    {<<segs[i].x1, segs[i].y1>> : i \in 1..Len(segs)}
        \cup {<<segs[i].x2, segs[i].y2>> : i \in 1..Len(segs)}

(* The segments that have p as an end point                                *)
SegmentsAt(segs, p) ==
    {i \in 1..Len(segs) : p = <<segs[i].x1, segs[i].y1>> \/ p = <<segs[i].x2, segs[i].y2>>}

(* Segment lists of curves that do not branch: no end point is shared by   *)
(* more than two segments                                                  *)
Unbranched(segs) ==
    \A p \in EndPoints(segs) : Cardinality(SegmentsAt(segs, p)) <= 2

InitLoop ==
    /\ rows = 0
    /\ cols = 0
    /\ grid = <<>>
    /\ pts = <<>>
    /\ segList \in {segs \in SeqsUpTo(LoopSegs, LoopMaxSegs) : Unbranched(segs)}
    /\ call = noCall
    /\ gc = gcIdle
    /\ Spreadsheet = noSpreadsheet

SpecLoop == InitLoop /\ [][NextMerge]_vars

PolylineToPath ==
    /\ call = noCall
    /\ gc.pc = "idle"
    /\ \E smoothing \in Smoothings :
          call' = [fn |-> "polylineToPath", smoothing |-> smoothing,
                   ret |-> polylineToPath(pts, smoothing)]
    /\ pts' = ptsAfterPolylineToPath(pts, call'.ret)
    /\ UNCHANGED <<grid, rows, cols, segList, gc, Spreadsheet>>

InitPath ==
    /\ rows = 0
    /\ cols = 0
    /\ grid = <<>>
    /\ pts \in SeqsUpTo(PathCoords \X PathCoords, MaxPts)
    /\ segList = <<>>
    /\ call = noCall
    /\ gc = gcIdle
    /\ Spreadsheet = noSpreadsheet

NextPath == PolylineToPath

SpecPath == InitPath /\ [][NextPath]_vars

ComputeSlope ==
    /\ call = noCall
    /\ gc.pc = "idle"
    /\ \E spacing \in Spacings :
          call' = [fn |-> "computeSlope", spacing |-> spacing,
                   ret |-> computeSlope(grid, rows, cols, spacing)]
    /\ grid' = gridAfterComputeSlope(grid, call'.ret)
    /\ UNCHANGED <<rows, cols, pts, segList, gc, Spreadsheet>>

ComputeFlowDirection ==
    /\ call = noCall
    /\ gc.pc = "idle"
    /\ \E spacing \in Spacings :
          call' = [fn |-> "computeFlowDirection", spacing |-> spacing,
                   ret |-> computeFlowDirection(grid, rows, cols, spacing)]
    /\ grid' = gridAfterComputeFlowDirection(grid, call'.ret)
    /\ UNCHANGED <<rows, cols, pts, segList, gc, Spreadsheet>>

ComputeCutFill ==
    /\ call = noCall
    /\ gc.pc = "idle"
    /\ \E spacing \in Spacings, datum \in Datums :
          call' = [fn |-> "computeCutFill", spacing |-> spacing, datum |-> datum,
                   ret |-> computeCutFill(grid, rows, cols, spacing, datum)]
    /\ grid' = gridAfterComputeCutFill(grid, call'.ret)
    /\ UNCHANGED <<rows, cols, pts, segList, gc, Spreadsheet>>

InitField ==
    /\ \E sh \in (1..MaxSide) \X (1..MaxSide) :
          /\ rows = sh[1]
          /\ cols = sh[2]
          /\ grid \in GridsOfShape(sh, AnalysisElevs)
    /\ pts = <<>>
    /\ segList = <<>>
    /\ call = noCall
    /\ gc = gcIdle
    /\ Spreadsheet = noSpreadsheet

SpecSlope == InitField /\ [][ComputeSlope]_vars

AbsentPoints(g, nrows, ncols) ==
    {p \in (0..(nrows - 1)) \X (0..(ncols - 1)) : g[p[1]][p[2]] = NULL}

InitFlow ==
    /\ InitField
    /\ Cardinality(AbsentPoints(grid, rows, cols)) <= FlowMaxAbsent

SpecFlow == InitFlow /\ [][ComputeFlowDirection]_vars

(* computeFlowDirection on 3x3 grids of the elevations 10 and 15, the      *)
(* peak [[10,10,10],[10,15,10],[10,10,10]] among them                      *)
PeakElevs == {R(10), R(15)}

InitPeak ==
    /\ rows = 3
    /\ cols = 3
    /\ grid \in [0..2 -> [0..2 -> PeakElevs]]
    /\ pts = <<>>
    /\ segList = <<>>
    /\ call = noCall
    /\ gc = gcIdle
    /\ Spreadsheet = noSpreadsheet

SpecPeak == InitPeak /\ [][ComputeFlowDirection]_vars

InitCutFill == InitGrid(CutFillMaxCells, AnalysisElevs)

SpecCutFill == InitCutFill /\ [][ComputeCutFill]_vars

InitSegments == InitGrid(SegMaxCells, SegElevs)

NextSegments == ComputeSegments

SpecSegments == InitSegments /\ [][NextSegments]_vars

InitContours == InitGrid(ContourMaxCells, ContourElevs)

NextContours == GenerateContours \/ GenerateContoursLoop \/ GenerateContoursReturn

SpecContours == InitContours /\ [][NextContours]_vars

(* generateContours on grids without absent samples whose elevation is     *)
(* base + rise per row * r + rise per column * c                           *)
InitPlanar ==
    /\ \E sh \in (1..PlanarMaxSide) \X (1..PlanarMaxSide),
          d \in PlanarBases, a \in PlanarRises, b \in PlanarRises :
          /\ rows = sh[1]
          /\ cols = sh[2]
          /\ grid = [r \in 0..(sh[1] - 1) |->
                        [c \in 0..(sh[2] - 1) |->
                            RAdd(d, RAdd(RMul(a, R(r)), RMul(b, R(c))))]]
    /\ pts = <<>>
    /\ segList = <<>>
    /\ call = noCall
    /\ gc = gcIdle
    /\ Spreadsheet = noSpreadsheet

SpecPlanar == InitPlanar /\ [][NextContours]_vars

(* A call of generateContours that has begun goes on: the loop takes its   *)
(* next iteration, and the function returns when the loop test fails.      *)
(* Nothing obliges a caller to call it.                                    *)
SpecPlanarFair ==
    /\ SpecPlanar
    /\ WF_vars(GenerateContoursLoop)
    /\ WF_vars(GenerateContoursReturn)

(* generateContours on grids of steep relief without absent samples        *)
InitRelief ==
    /\ \E sh \in (1..ReliefMaxSide) \X (1..ReliefMaxSide), high \in ReliefHighs :
          /\ rows = sh[1]
          /\ cols = sh[2]
          /\ grid \in [0..(sh[1] - 1) -> [0..(sh[2] - 1) -> {ReliefLow, high}]]
    /\ pts = <<>>
    /\ segList = <<>>
    /\ call = noCall
    /\ gc = gcIdle
    /\ Spreadsheet = noSpreadsheet

SpecRelief == InitRelief /\ [][NextContours]_vars

(* Both engines together: any one function called on a grid, a point list  *)
(* or a segment list                                                       *)
InitEngines == InitGrid(ContourMaxCells, AnalysisElevs) \/ InitPath \/ InitMerge

NextEngines ==
    \/ ComputeSegments
    \/ MergeSegments
    \/ PolylineToPath
    \/ GenerateContours
    \/ GenerateContoursLoop
    \/ GenerateContoursReturn
    \/ ComputeSlope
    \/ ComputeFlowDirection
    \/ ComputeCutFill

SpecEngines == InitEngines /\ [][NextEngines]_vars

----------------------------------------------------------------------------
(* Claims about computeSegments                                            *)

CompleteCell(g, r, c) ==
    /\ g[r][c] # NULL
    /\ g[r][c + 1] # NULL
    /\ g[r + 1][c] # NULL
    /\ g[r + 1][c + 1] # NULL

(* The 2x2 grid made of the four corners of cell (r, c)                    *)
Neighbourhood(g, r, c) == [i \in 0..1 |-> [j \in 0..1 |-> g[r + i][c + j]]]

ShiftSegments(segs, r, c) ==
    [k \in 1..Len(segs) |->
        [x1 |-> RAdd(segs[k].x1, R(c)), y1 |-> RAdd(segs[k].y1, R(r)),
         x2 |-> RAdd(segs[k].x2, R(c)), y2 |-> RAdd(segs[k].y2, R(r))]]

(* What the cells from (r, c) onwards give when every complete cell is     *)
(* contoured on its own, as a 2x2 grid, and every other cell gives nothing *)
RECURSIVE CompleteCellsAlone(_, _, _, _, _, _)
CompleteCellsAlone(g, nrows, ncols, level, r, c) ==
    IF r >= nrows - 1 THEN <<>>
    ELSE IF c >= ncols - 1 THEN CompleteCellsAlone(g, nrows, ncols, level, r + 1, 0)
    ELSE (IF CompleteCell(g, r, c)
          THEN ShiftSegments(computeSegments(Neighbourhood(g, r, c), 2, 2, level), r, c)
          ELSE <<>>)
         \o CompleteCellsAlone(g, nrows, ncols, level, r, c + 1)

AllAbsent(g, nrows, ncols) ==
    \A r \in 0..(nrows - 1), c \in 0..(ncols - 1) : g[r][c] = NULL

(* C1: computeSegments emits nothing from a 2x2 cell with an absent        *)
(* corner (so nothing at all from a fully absent grid), and what a         *)
(* complete cell emits does not depend on the cells around it: the result  *)
(* is exactly what the complete cells give one by one, each on its own.    *)
C1_AbsentCornerCellsSkipped ==
    call.fn = "computeSegments" =>
        /\ call.ret = CompleteCellsAlone(grid, rows, cols, call.level, 0, 0)
        /\ AllAbsent(grid, rows, cols) => call.ret = <<>>

(* A complete cell that emits a segment beside a cell with one absent      *)
(* corner whose other three corners straddle the level                     *)
C1_Witness ==
    /\ call.fn = "computeSegments"
    /\ rows = 2 /\ cols = 3
    /\ CompleteCell(grid, 0, 0)
    /\ grid[1][2] = NULL
    /\ grid[0][2] # NULL
    /\ RLt(grid[0][1], call.level) /\ RLe(call.level, grid[0][2])
    /\ Len(call.ret) = 1

----------------------------------------------------------------------------
(* Claims about generateContours                                           *)

PresentPoints(g, nrows, ncols) ==
    {p \in (0..(nrows - 1)) \X (0..(ncols - 1)) : g[p[1]][p[2]] # NULL}

PresentValues(g, nrows, ncols) ==
    {g[p[1]][p[2]] : p \in PresentPoints(g, nrows, ncols)}

Lowest(S) == CHOOSE x \in S : \A y \in S : RLe(x, y)

Highest(S) == CHOOSE x \in S : \A y \in S : RLe(y, x)

BelowMinimumSize(g, nrows, ncols) ==
    nrows < 2 \/ ncols < 2 \/ Cardinality(PresentPoints(g, nrows, ncols)) < 4

(* C2: called with rows < 2, or cols < 2, or a grid of fewer than 4        *)
(* non-absent samples, generateContours returns at once (it never enters   *)
(* its level loop) and what it returns is the empty result.                *)
C2_EmptyBelowMinimumSize ==
    (gc.pc # "idle" /\ BelowMinimumSize(grid, rows, cols)) =>
        (gc.pc = "done" /\ gc.result = <<>>)

(* The three ways to be below the minimum size, one per disjunct, returned *)
C2_Witness ==
    /\ gc.pc = "done"
    /\ gc.result = <<>>
    /\ rows = 2 /\ cols = 2
    /\ Cardinality(PresentPoints(grid, rows, cols)) = 3
    /\ Cardinality(PresentValues(grid, rows, cols)) = 3

(* startLevel = ceil(min / interval) * interval over the present samples   *)
StartLevelOf(g, nrows, ncols, interval) ==
    RMul(R(Ceil(RDiv(Lowest(PresentValues(g, nrows, ncols)), interval))), interval)

(* x is startLevel + k * interval for an integer k >= 0                    *)
IsStepFrom(x, startLevel, interval) ==
    LET q == RDiv(RSub(x, startLevel), interval)
    IN  q[2] = 1 /\ q[1] >= 0

(* v to 6 decimals, a tie going up                                         *)
ToSixDecimals(v) ==
    LET scaled == RMul(v, R(1000000))
    IN  RDiv(R(Floor(RAdd(scaled, <<1, 2>>))), R(1000000))

(* The levels the loop goes through: the first is startLevel to 6          *)
(* decimals, the next is the last one plus interval, to 6 decimals, as     *)
(* long as the sum before rounding is not above max.                       *)
RECURSIVE RoundedSteps(_, _, _)
RoundedSteps(unrounded, interval, max) ==
    IF ~RLe(unrounded, max) THEN <<>>
    ELSE LET level == ToSixDecimals(unrounded)
         IN  <<level>> \o RoundedSteps(RAdd(level, interval), interval, max)

Range(seq) == {seq[i] : i \in 1..Len(seq)}

ResultLevels == [i \in 1..Len(gc.result) |-> gc.result[i].level]

StrictlyAscending(levels) ==
    \A i \in 1..(Len(levels) - 1) : RLt(levels[i], levels[i + 1])

Returned == gc.pc = "done" /\ ~BelowMinimumSize(grid, rows, cols)

(* C3 as stated: the returned levels are strictly ascending, each is       *)
(* startLevel + k * interval for an integer k >= 0, and none is above the  *)
(* highest present elevation.                                              *)
C3_LevelsExactMultiples ==
    Returned =>
        /\ StrictlyAscending(ResultLevels)
        /\ \A i \in 1..Len(gc.result) :
              /\ IsStepFrom(ResultLevels[i],
                            StartLevelOf(grid, rows, cols, gc.interval), gc.interval)
              /\ RLe(ResultLevels[i], Highest(PresentValues(grid, rows, cols)))

(* C3 amended: the returned levels are strictly ascending, none is above   *)
(* the highest present elevation, and each is one of the loop's levels,    *)
(* which are rounded to 6 decimals at every step; a level is               *)
(* startLevel + k * interval whenever interval is a whole number of        *)
(* millionths.                                                             *)
C3_LevelsRoundedSteps ==
    Returned =>
        LET startLevel == StartLevelOf(grid, rows, cols, gc.interval)
            max == Highest(PresentValues(grid, rows, cols))
            steps == Range(RoundedSteps(startLevel, gc.interval, max))
        IN  /\ StrictlyAscending(ResultLevels)
            /\ \A i \in 1..Len(gc.result) :
                  /\ ResultLevels[i] \in steps
                  /\ RLe(ResultLevels[i], max)
                  /\ RDiv(gc.interval, Micro)[2] = 1 =>
                        IsStepFrom(ResultLevels[i], startLevel, gc.interval)

(* A result of several levels for an interval of 1.5 millionths, the       *)
(* second level being a rounded one                                        *)
C3_Witness ==
    /\ Returned
    /\ gc.interval = RMul(<<3, 2>>, Micro)
    /\ Len(gc.result) >= 2
    /\ ~IsStepFrom(ResultLevels[2], gc.startLevel, gc.interval)

(* C4: every returned ContourLevel holds at least one polyline, and a      *)
(* level the loop went through is missing from the result exactly when     *)
(* computeSegments gives no segment at that level.                         *)
C4_LevelKeptIffSegments ==
    Returned =>
        /\ \A i \in 1..Len(gc.result) : Len(gc.result[i].polylines) >= 1
        /\ \A level \in Range(RoundedSteps(gc.startLevel, gc.interval, gc.maxV)) :
              (level \notin Range(ResultLevels))
                  <=> (computeSegments(grid, rows, cols, level) = <<>>)

(* A return where one level of the loop was kept and another was dropped   *)
C4_Witness ==
    /\ Returned
    /\ Len(gc.result) >= 2
    /\ \E level \in Range(RoundedSteps(gc.startLevel, gc.interval, gc.maxV)) :
          level \notin Range(ResultLevels)

(* n is an integer multiple of m                                           *)
IsMultipleOf(n, m) == \E k \in (-Abs(n))..Abs(n) : n = k * m

(* C5: a ContourLevel is major exactly when round(level / interval) is an  *)
(* integer multiple of majorMultiplier, for negative levels, level 0 and   *)
(* positive levels alike.                                                  *)
C5_MajorIffMultiple ==
    \A i \in 1..Len(gc.result) :
        gc.result[i].isMajor
            <=> IsMultipleOf(MathRound(RDiv(gc.result[i].level, gc.interval)),
                             gc.majorMultiplier)

(* One result with a major negative level, level 0, and a minor positive   *)
(* level                                                                   *)
C5_Witness ==
    /\ gc.pc = "done"
    /\ gc.majorMultiplier = 2
    /\ \E i, j, k \in 1..Len(gc.result) :
          /\ gc.result[i].level[1] < 0 /\ gc.result[i].isMajor
          /\ gc.result[j].level = Zero /\ gc.result[j].isMajor
          /\ gc.result[k].level[1] > 0 /\ ~gc.result[k].isMajor

----------------------------------------------------------------------------
(* Claims about polylineToPath                                             *)

(* The number a toFixed(3) text stands for                                 *)
Printed(f) == Norm(IF f.neg THEN -f.milli ELSE f.milli, 1000)

StraightCase == call.smoothing = Zero \/ Len(pts) < 3

(* C6 as stated: with smoothing 0 or fewer than 3 points (2, 1 or 0        *)
(* points included) the path is a straight-line path through all the       *)
(* input points, in order, with no curve command.                          *)
C6_StraightThroughAllPoints ==
    (call.fn = "polylineToPath" /\ StraightCase) =>
        /\ Len(call.ret) = Len(pts)
        /\ \A i \in 1..Len(call.ret) :
              /\ call.ret[i].cmd = (IF i = 1 THEN "M" ELSE "L")
              /\ Len(call.ret[i].args) = 1
              /\ Printed(call.ret[i].args[1][1]) = pts[i][1]
              /\ Printed(call.ret[i].args[1][2]) = pts[i][2]

(* C6 amended: with at least 2 points, and smoothing 0 or exactly 2        *)
(* points, the path is a move to the first point and a line to each next   *)
(* point, in order, with no curve command, every coordinate printed to 3   *)
(* decimals; with fewer than 2 points the path is empty.                   *)
C6_StraightOrEmpty ==
    (call.fn = "polylineToPath" /\ StraightCase) =>
        IF Len(pts) < 2 THEN call.ret = <<>>
        ELSE /\ Len(call.ret) = Len(pts)
             /\ \A i \in 1..Len(call.ret) :
                   /\ call.ret[i].cmd = (IF i = 1 THEN "M" ELSE "L")
                   /\ Len(call.ret[i].args) = 1
                   /\ \A j \in 1..2 :
                         LET shown == Printed(call.ret[i].args[1][j])
                             off == RSub(shown, pts[i][j])
                         IN  /\ RMul(shown, R(1000))[2] = 1
                             /\ RLe(RAbs(off), <<1, 2000>>)

(* Three points, one of them not a whole number of thousandths, joined by  *)
(* straight lines at smoothing 0                                           *)
C6_Witness ==
    /\ call.fn = "polylineToPath"
    /\ call.smoothing = Zero
    /\ Len(pts) = 3
    /\ pts[2][1] = <<1, 3>>
    /\ Len(call.ret) = 3
    /\ call.ret[3].cmd = "L"

----------------------------------------------------------------------------
(* Claims about computeSlope                                               *)

InGrid(r, c) == r >= 0 /\ r < rows /\ c >= 0 /\ c < cols

Present(r, c) == InGrid(r, c) /\ grid[r][c] # NULL

Points == (0..(rows - 1)) \X (0..(cols - 1))

HasHorizontal(r, c) == Present(r, c - 1) \/ Present(r, c + 1)

HasVertical(r, c) == Present(r - 1, c) \/ Present(r + 1, c)

(* C7: computeSlope gives a value at (r, c) exactly when the point is      *)
(* present, a left or right neighbour is present, and an up or down        *)
(* neighbour is present; a point with no neighbour on one axis is absent   *)
(* whatever the other axis has.                                            *)
C7_SlopePresentIffBothAxes ==
    call.fn = "computeSlope" =>
        \A p \in Points :
            (call.ret[p[1]][p[2]] # NULL)
                <=> (Present(p[1], p[2]) /\ HasHorizontal(p[1], p[2])
                        /\ HasVertical(p[1], p[2]))

(* A present point with neighbours above and below but none beside it is   *)
(* absent from the field, while another point has a value                  *)
C7_Witness ==
    /\ call.fn = "computeSlope"
    /\ \E p \in Points :
          /\ Present(p[1], p[2])
          /\ Present(p[1] - 1, p[2]) /\ Present(p[1] + 1, p[2])
          /\ ~HasHorizontal(p[1], p[2])
          /\ call.ret[p[1]][p[2]] = NULL
    /\ \E q \in Points : call.ret[q[1]][q[2]] # NULL

(* The derivative along one axis at a present point with at least one      *)
(* present neighbour on that axis: prev and next are (r, c) pairs          *)
AxisDerivative(prev, centre, next, spacing) ==
    IF Present(prev[1], prev[2]) /\ Present(next[1], next[2])
    THEN RDiv(RSub(grid[next[1]][next[2]], grid[prev[1]][prev[2]]), RMul(R(2), spacing))
    ELSE IF Present(next[1], next[2])
    THEN RDiv(RSub(grid[next[1]][next[2]], grid[centre[1]][centre[2]]), spacing)
    ELSE RDiv(RSub(grid[centre[1]][centre[2]], grid[prev[1]][prev[2]]), spacing)

Dzx(p, spacing) == AxisDerivative(<<p[1], p[2] - 1>>, p, <<p[1], p[2] + 1>>, spacing)

Dzy(p, spacing) == AxisDerivative(<<p[1] - 1, p[2]>>, p, <<p[1] + 1, p[2]>>, spacing)

(* C8: where computeSlope gives a value, that value is                     *)
(* 100 * sqrt(dzx^2 + dzy^2) with each derivative the central difference   *)
(* over 2 * spacing when both neighbours on the axis are present and       *)
(* otherwise the one-sided difference over spacing to the one present      *)
(* neighbour; it is never negative and is 0 exactly when both derivatives  *)
(* are 0.                                                                  *)
C8_SlopeValue ==
    call.fn = "computeSlope" =>
        \A p \in Points :
            call.ret[p[1]][p[2]] # NULL =>
                LET dzx == Dzx(p, call.spacing)
                    dzy == Dzy(p, call.spacing)
                    squares == RAdd(RMul(dzx, dzx), RMul(dzy, dzy))
                    value == call.ret[p[1]][p[2]]
                IN  /\ value = SRoot(RMul(R(10000), squares))
                    /\ value[1] >= 0
                    /\ (value[1] = 0) <=> (dzx = Zero /\ dzy = Zero)

(* A non-zero slope from a central difference on one axis and a one-sided  *)
(* difference on the other, and a zero slope elsewhere in the same field   *)
C8_Witness ==
    /\ call.fn = "computeSlope"
    /\ call.spacing = R(2)
    /\ \E p \in Points :
          /\ call.ret[p[1]][p[2]] # NULL
          /\ Present(p[1], p[2] - 1) /\ Present(p[1], p[2] + 1)
          /\ Present(p[1] - 1, p[2]) /\ ~Present(p[1] + 1, p[2])
          /\ Dzx(p, call.spacing) # Zero
          /\ Dzy(p, call.spacing) # Zero
    /\ \E q \in Points : call.ret[q[1]][q[2]] = SRoot(Zero)

----------------------------------------------------------------------------
(* Claims about computeFlowDirection                                       *)

Offsets == {o \in (-1..1) \X (-1..1) : o # <<0, 0>>}

(* Position of an offset in the scan: dRow outer, dCol inner               *)
ScanIndex(o) == 3 * (o[1] + 1) + (o[2] + 1)

HeightDrop(p, o) == RSub(grid[p[1]][p[2]], grid[p[1] + o[1]][p[2] + o[2]])

(* The in-bounds, present neighbours of p that lie strictly lower          *)
Downhill(p) ==
    {o \in Offsets : /\ Present(p[1] + o[1], p[2] + o[2])
                     /\ RLt(Zero, HeightDrop(p, o))}

(* The square of (spacing * sqrt(dRow^2 + dCol^2)), the distance to a      *)
(* neighbour                                                               *)
DistSquared(o, spacing) == RMul(RMul(spacing, spacing), R(o[1] * o[1] + o[2] * o[2]))

(* drop(o2) <= drop(o) for two downhill neighbours of p, where             *)
(* drop = (centre - neighbour) / distance: both drops are positive, so     *)
(* they compare as their squares, cross-multiplied                         *)
DropNotAbove(p, o2, o, spacing) ==
    RLe(RMul(RMul(HeightDrop(p, o2), HeightDrop(p, o2)), DistSquared(o, spacing)),
        RMul(RMul(HeightDrop(p, o), HeightDrop(p, o)), DistSquared(o2, spacing)))

(* The downhill neighbours of largest drop                                 *)
Steepest(p, spacing) ==
    LET lower == Downhill(p)
    IN  {o \in lower : \A o2 \in lower : DropNotAbove(p, o2, o, spacing)}

FirstScanned(S) == CHOOSE o \in S : \A o2 \in S : ScanIndex(o) <= ScanIndex(o2)

(* C9: at a present point with a strictly lower present neighbour the flow *)
(* is atan2(dRow, dCol) of the neighbour of largest drop, the first in     *)
(* scan order when several share it; the flow is absent exactly when the   *)
(* point is absent or has no neighbour of positive drop.                   *)
C9_SteepestFirstScanned ==
    call.fn = "computeFlowDirection" =>
        \A p \in Points :
            IF ~Present(p[1], p[2]) \/ Downhill(p) = {}
            THEN call.ret[p[1]][p[2]] = NULL
            ELSE LET o == FirstScanned(Steepest(p, call.spacing))
                 IN  /\ call.ret[p[1]][p[2]] # NULL
                     /\ call.ret[p[1]][p[2]] = atan2(o[1], o[2])

(* The centre of a 3x3 grid with an absent neighbour, whose steepest drop  *)
(* is shared by two diagonal neighbours that beat a nearer, less low one,  *)
(* and a point of the same field without any lower neighbour               *)
C9_Witness ==
    /\ call.fn = "computeFlowDirection"
    /\ rows = 3 /\ cols = 3
    /\ Present(1, 1)
    /\ \E o \in Offsets : grid[1 + o[1]][1 + o[2]] = NULL
    /\ Cardinality(Steepest(<<1, 1>>, call.spacing)) = 2
    /\ \A o \in Steepest(<<1, 1>>, call.spacing) : o[1] # 0 /\ o[2] # 0
    /\ \E o \in Downhill(<<1, 1>>) : o[1] = 0 \/ o[2] = 0
    /\ call.ret[1][1] = atan2(FirstScanned(Steepest(<<1, 1>>, call.spacing))[1],
                              FirstScanned(Steepest(<<1, 1>>, call.spacing))[2])
    /\ \E q \in Points : Present(q[1], q[2]) /\ call.ret[q[1]][q[2]] = NULL

----------------------------------------------------------------------------
(* Claims about computeCutFill                                             *)

Cells == (0..(rows - 2)) \X (0..(cols - 2))

CompleteCells == {k \in Cells : CompleteCell(grid, k[1], k[2])}

CellMean(k) ==
    RDiv(RAdd(RAdd(grid[k[1]][k[2]], grid[k[1]][k[2] + 1]),
              RAdd(grid[k[1] + 1][k[2]], grid[k[1] + 1][k[2] + 1])), R(4))

(* Sum over the cells of S of |mean - datum| * spacing^2                   *)
RECURSIVE VolumeOver(_, _, _)
VolumeOver(S, spacing, datum) ==
    IF S = {} THEN Zero
    ELSE LET k == CHOOSE x \in S : TRUE
         IN  RAdd(RMul(RAbs(RSub(CellMean(k), datum)), RMul(spacing, spacing)),
                  VolumeOver(S \ {k}, spacing, datum))

(* C10: the cut volume is the sum over the complete cells whose corner     *)
(* mean is above the datum of (mean - datum) * spacing^2, the fill volume  *)
(* the sum over the other complete cells of (datum - mean) * spacing^2;    *)
(* cells with an absent corner add nothing to either.                      *)
C10_CutFillSums ==
    call.fn = "computeCutFill" =>
        LET above == {k \in CompleteCells : RLt(call.datum, CellMean(k))}
        IN  /\ call.ret.cutVol = VolumeOver(above, call.spacing, call.datum)
            /\ call.ret.fillVol
                  = VolumeOver(CompleteCells \ above, call.spacing, call.datum)

(* Three cells: one above the datum, one below it, one with an absent      *)
(* corner                                                                  *)
C10_Witness ==
    /\ call.fn = "computeCutFill"
    /\ call.spacing = R(2)
    /\ Cardinality(Cells) = 3
    /\ Cardinality(CompleteCells) = 2
    /\ \E k \in CompleteCells : RLt(call.datum, CellMean(k))
    /\ \E k \in CompleteCells : RLt(CellMean(k), call.datum)
    /\ RLt(Zero, call.ret.cutVol)
    /\ RLt(Zero, call.ret.fillVol)

(* C11: whatever the grid, the spacing and the datum, the cut volume and   *)
(* the fill volume of the result are >= 0 and the net volume is the cut    *)
(* volume minus the fill volume.                                           *)
C11_VolumesNonNegative ==
    call.fn = "computeCutFill" =>
        /\ RLe(Zero, call.ret.cutVol)
        /\ RLe(Zero, call.ret.fillVol)
        /\ call.ret.netVol = RSub(call.ret.cutVol, call.ret.fillVol)

(* Cells on both sides of the datum with more fill than cut: the net       *)
(* volume is negative while both volumes are positive                      *)
C11_Witness ==
    /\ call.fn = "computeCutFill"
    /\ RLt(Zero, call.ret.cutVol)
    /\ RLt(call.ret.cutVol, call.ret.fillVol)
    /\ RLt(call.ret.netVol, Zero)

----------------------------------------------------------------------------
(* Claims about both engines                                               *)

----------------------------------------------------------------------------
(* Claims about generateContours on planar and on flat grids               *)

CompleteGrid == \A p \in Points : grid[p[1]][p[2]] # NULL

RisePerRow == IF rows > 1 THEN RSub(grid[1][0], grid[0][0]) ELSE Zero

RisePerCol == IF cols > 1 THEN RSub(grid[0][1], grid[0][0]) ELSE Zero

(* The plane through the grid's first samples, at column x and row y       *)
PlaneAt(x, y) ==
    RAdd(grid[0][0], RAdd(RMul(RisePerRow, y), RMul(RisePerCol, x)))

PlanarGrid ==
    /\ rows >= 1 /\ cols >= 1
    /\ CompleteGrid
    /\ \A p \in Points : grid[p[1]][p[2]] = PlaneAt(R(p[2]), R(p[1]))

MinElev == Lowest(PresentValues(grid, rows, cols))

MaxElev == Highest(PresentValues(grid, rows, cols))

(* Every point of every returned polyline lies where the plane is at the   *)
(* polyline's level: each polyline is straight, the polylines of all       *)
(* levels have one direction, and two of them lie apart in proportion to   *)
(* the difference of their levels                                          *)
OnLevelLines ==
    \A i \in 1..Len(gc.result) :
        \A j \in 1..Len(gc.result[i].polylines) :
            \A k \in 1..Len(gc.result[i].polylines[j]) :
                PlaneAt(gc.result[i].polylines[j][k][1],
                        gc.result[i].polylines[j][k][2]) = gc.result[i].level

(* C13 as stated: on a planar grid without absent values generateContours  *)
(* returns straight, evenly spaced, parallel lines, and their count is     *)
(* floor((max - min) / interval) + 1, counting one line per returned       *)
(* level, on the grids the engine contours at all (2 rows and 2 columns    *)
(* or more).                                                               *)
C13_PlanarCountFromRange ==
    (gc.pc = "done" /\ rows >= 2 /\ cols >= 2 /\ PlanarGrid) =>
        /\ OnLevelLines
        /\ Len(gc.result) = Floor(RDiv(RSub(MaxElev, MinElev), gc.interval)) + 1

(* C13 amended: on a planar grid of at least 2 rows and 2 columns without  *)
(* absent values, the returned levels are the levels of the loop that are  *)
(* above min and not above max (the level equal to min gives no line);    *)
(* every point of every polyline of a level lies where the plane is at     *)
(* that level; for an interval of a whole number of millionths the number  *)
(* of returned levels is floor((max - startLevel) / interval) + 1, less    *)
(* one when startLevel is min.                                             *)
C13_PlanarLevelLines ==
    (gc.pc = "done" /\ rows >= 2 /\ cols >= 2 /\ PlanarGrid) =>
        LET startLevel == StartLevelOf(grid, rows, cols, gc.interval)
            steps == Range(RoundedSteps(startLevel, gc.interval, MaxElev))
        IN  /\ Range(ResultLevels)
                  = {level \in steps : RLt(MinElev, level) /\ RLe(level, MaxElev)}
            /\ StrictlyAscending(ResultLevels)
            /\ \A i \in 1..Len(gc.result) : Len(gc.result[i].polylines) >= 1
            /\ OnLevelLines
            /\ RDiv(gc.interval, Micro)[2] = 1 =>
                  Len(gc.result) = Floor(RDiv(RSub(MaxElev, startLevel), gc.interval)) + 1
                                - (IF startLevel = MinElev THEN 1 ELSE 0)

(* A 3x3 grid rising along both axes, contoured at three levels, one of    *)
(* whose lines runs through the middle sample across several cells         *)
C13_Witness ==
    /\ gc.pc = "done"
    /\ rows = 3 /\ cols = 3
    /\ PlanarGrid
    /\ RisePerRow # Zero /\ RisePerCol # Zero
    /\ Len(gc.result) >= 3
    /\ \E i \in 1..Len(gc.result) :
          /\ gc.result[i].level = grid[1][1]
          /\ Len(gc.result[i].polylines[1]) >= 3

FlatGrid ==
    /\ rows >= 1 /\ cols >= 1
    /\ CompleteGrid
    /\ \A p \in Points : grid[p[1]][p[2]] = grid[0][0]

----------------------------------------------------------------------------
(* Claims about computeSlope on grids of one elevation                     *)

(* The present samples all have one elevation                              *)
OneElevation == Cardinality(PresentValues(grid, rows, cols)) <= 1

HasNeighbour(r, c) == HasHorizontal(r, c) \/ HasVertical(r, c)

(* C15 as stated: when all present samples have one elevation,             *)
(* computeSlope gives 0 at every present point with at least one present   *)
(* neighbour (left, right, up or down), and is absent only at points that  *)
(* are absent themselves or have no present neighbour at all.              *)
C15_ZeroWithAnyNeighbour ==
    (call.fn = "computeSlope" /\ OneElevation) =>
        \A p \in Points :
            /\ (Present(p[1], p[2]) /\ HasNeighbour(p[1], p[2]))
                  => call.ret[p[1]][p[2]] = SRoot(Zero)
            /\ call.ret[p[1]][p[2]] = NULL
                  => (~Present(p[1], p[2]) \/ ~HasNeighbour(p[1], p[2]))

(* C15 amended: when all present samples have one elevation, computeSlope  *)
(* gives 0 at every present point with a present neighbour on each axis    *)
(* (left or right, and up or down), and is absent at every other point: a  *)
(* present point with neighbours on one axis only is absent too.           *)
C15_ZeroWithBothAxes ==
    (call.fn = "computeSlope" /\ OneElevation) =>
        \A p \in Points :
            IF Present(p[1], p[2]) /\ HasHorizontal(p[1], p[2])
                  /\ HasVertical(p[1], p[2])
            THEN call.ret[p[1]][p[2]] = SRoot(Zero)
            ELSE call.ret[p[1]][p[2]] = NULL

(* A 3x3 grid of one elevation with absent samples: one point has slope 0, *)
(* another is present with a neighbour beside it but none above or below   *)
(* and is absent from the field                                            *)
C15_Witness ==
    /\ call.fn = "computeSlope"
    /\ OneElevation
    /\ rows = 3 /\ cols = 3
    /\ \E p \in Points : call.ret[p[1]][p[2]] = SRoot(Zero)
    /\ \E p \in Points :
          /\ Present(p[1], p[2])
          /\ HasHorizontal(p[1], p[2])
          /\ ~HasVertical(p[1], p[2])
          /\ call.ret[p[1]][p[2]] = NULL

----------------------------------------------------------------------------
(* Claims about computeFlowDirection on the peak grid                      *)

PeakGrid ==
    [r \in 0..2 |-> [c \in 0..2 |-> IF r = 1 /\ c = 1 THEN R(15) ELSE R(10)]]

PeakCall ==
    /\ call.fn = "computeFlowDirection"
    /\ call.spacing = R(1)
    /\ rows = 3 /\ cols = 3
    /\ grid = PeakGrid

(* C16 as stated: for [[10,10,10],[10,15,10],[10,10,10]] with spacing 1    *)
(* the flow at the centre is present and points to the first scanned       *)
(* neighbour, offset (-1, -1).                                             *)
C16_PeakFlowsToFirstScanned ==
    PeakCall =>
        /\ call.ret[1][1] # NULL
        /\ call.ret[1][1] = atan2(-1, -1)

(* C16 amended: for that grid and spacing the flow at the centre is        *)
(* present and points to offset (-1, 0), the first scanned of the four     *)
(* orthogonal neighbours: their drop 5 is above the drop 5 / sqrt(2) of    *)
(* the diagonal ones, so (-1, -1) is taken first and then replaced.        *)
C16_PeakFlowsUp ==
    PeakCall =>
        /\ call.ret[1][1] # NULL
        /\ call.ret[1][1] = atan2(-1, 0)
        /\ Steepest(<<1, 1>>, call.spacing) = {<<-1, 0>>, <<0, -1>>, <<0, 1>>, <<1, 0>>}

(* The flow field of the peak grid has been computed: the centre flows,    *)
(* the eight points around it have no lower neighbour                      *)
C16_Witness ==
    /\ PeakCall
    /\ call.ret[1][1] = <<-1, 2>>
    /\ \A p \in Points : p # <<1, 1>> => call.ret[p[1]][p[2]] = NULL

----------------------------------------------------------------------------
(* Claims about computeCutFill with a datum below the grid                 *)

DatumBelowGrid ==
    \A v \in PresentValues(grid, rows, cols) : RLt(call.datum, v)

(* Sum over the cells of S of (mean - datum) * spacing^2, sign kept        *)
RECURSIVE ExcessOver(_, _, _)
ExcessOver(S, spacing, datum) ==
    IF S = {} THEN Zero
    ELSE LET k == CHOOSE x \in S : TRUE
         IN  RAdd(RMul(RSub(CellMean(k), datum), RMul(spacing, spacing)),
                  ExcessOver(S \ {k}, spacing, datum))

(* C17: with a datum strictly below every present sample the fill volume   *)
(* is 0 and the cut volume is the sum over the complete cells of           *)
(* (cell mean - datum) * spacing^2.                                        *)
C17_DatumBelowAllCut ==
    (call.fn = "computeCutFill" /\ DatumBelowGrid) =>
        /\ call.ret.fillVol = Zero
        /\ call.ret.cutVol = ExcessOver(CompleteCells, call.spacing, call.datum)

(* A datum between 0 and the samples of a grid with two complete cells of  *)
(* different means and one cell with an absent corner                      *)
C17_Witness ==
    /\ call.fn = "computeCutFill"
    /\ DatumBelowGrid
    /\ call.datum = <<3, 4>>
    /\ call.spacing = R(2)
    /\ Cardinality(CompleteCells) = 2
    /\ Cardinality(Cells) = 3
    /\ \E k1, k2 \in CompleteCells : CellMean(k1) # CellMean(k2)
    /\ RLt(Zero, call.ret.cutVol)

----------------------------------------------------------------------------
(* Claims about mergeSegments                                              *)

(* The list of consecutive-point segments of a polyline                    *)
SegmentsOf(poly) ==
    [k \in 1..(Len(poly) - 1) |->
        [x1 |-> poly[k][1], y1 |-> poly[k][2],
         x2 |-> poly[k + 1][1], y2 |-> poly[k + 1][2]]]

Reverse(seq) == [k \in 1..Len(seq) |-> seq[Len(seq) + 1 - k]]

(* C18: merging the consecutive-point segments of a polyline that          *)
(* mergeSegments has returned gives exactly one polyline, the same         *)
(* polyline point for point or its reverse, also when the polyline comes   *)
(* back to a point or has a step of length zero.                           *)
C18_MergeIdempotent ==
    call.fn = "mergeSegments" =>
        \A i \in 1..Len(call.ret) :
            LET again == mergeSegments(SegmentsOf(call.ret[i]), Tol)
            IN  /\ Len(again) = 1
                /\ again[1] = call.ret[i] \/ again[1] = Reverse(call.ret[i])

(* A returned polyline of four points that comes back to a point it has    *)
(* left and ends with a step of length zero                                *)
C18_Witness ==
    /\ call.fn = "mergeSegments"
    /\ \E i \in 1..Len(call.ret) :
          /\ Len(call.ret[i]) = 4
          /\ call.ret[i][1] = call.ret[i][3]
          /\ call.ret[i][1] # call.ret[i][2]
          /\ call.ret[i][3] = call.ret[i][4]

(* The pairs of consecutive points of all the polylines, in order          *)
RECURSIVE ConsecutivePairs(_)
ConsecutivePairs(polylines) ==
    IF polylines = <<>> THEN <<>>
    ELSE [k \in 1..(Len(Head(polylines)) - 1) |->
             <<Head(polylines)[k], Head(polylines)[k + 1]>>]
         \o ConsecutivePairs(Tail(polylines))

(* p and q are the two end points of segment s, in either order            *)
IsSegment(s, p, q) ==
    \/ p = <<s.x1, s.y1>> /\ q = <<s.x2, s.y2>>
    \/ p = <<s.x2, s.y2>> /\ q = <<s.x1, s.y1>>

(* p and q round to the keys of the two end points of s, in either order,  *)
(* and one of them is its end point exactly                                *)
IsSegmentWithinTol(s, p, q) ==
    \E e \in {<<<<s.x1, s.y1>>, <<s.x2, s.y2>>>>, <<<<s.x2, s.y2>>, <<s.x1, s.y1>>>>} :
        /\ key(p[1], p[2], Tol) = key(e[1][1], e[1][2], Tol)
        /\ key(q[1], q[2], Tol) = key(e[2][1], e[2][2], Tol)
        /\ p = e[1] \/ q = e[2]

(* C19 as stated: every polyline has at least 2 points, the pairs of       *)
(* consecutive points are as many as the input segments, and they can be   *)
(* matched one to one with the input segments so that each pair is the two *)
(* end points of its segment.                                              *)
C19_EachSegmentOnceExact ==
    call.fn = "mergeSegments" =>
        LET pairs == ConsecutivePairs(call.ret)
        IN  /\ \A i \in 1..Len(call.ret) : Len(call.ret[i]) >= 2
            /\ Len(pairs) = Len(segList)
            /\ \E f \in Permutations(1..Len(segList)) :
                  \A k \in 1..Len(segList) :
                      IsSegment(segList[f[k]], pairs[k][1], pairs[k][2])

(* C19 amended: every polyline has at least 2 points, the pairs of         *)
(* consecutive points are as many as the input segments, and they can be   *)
(* matched one to one with the input segments so that each pair agrees     *)
(* with the two end points of its segment once rounded to the tolerance,   *)
(* one point of the pair being an end point exactly.                       *)
C19_EachSegmentOnceWithinTol ==
    call.fn = "mergeSegments" =>
        LET pairs == ConsecutivePairs(call.ret)
        IN  /\ \A i \in 1..Len(call.ret) : Len(call.ret[i]) >= 2
            /\ Len(pairs) = Len(segList)
            /\ \E f \in Permutations(1..Len(segList)) :
                  \A k \in 1..Len(segList) :
                      IsSegmentWithinTol(segList[f[k]], pairs[k][1], pairs[k][2])

(* Three segments merged into one polyline across two end points that      *)
(* differ by less than the tolerance: one step of the polyline is not a    *)
(* segment of the input                                                    *)
C19_Witness ==
    /\ call.fn = "mergeSegments"
    /\ Len(segList) = 3
    /\ Len(call.ret) = 1
    /\ Len(call.ret[1]) = 4
    /\ \E k \in 1..3 :
          \A i \in 1..3 : ~IsSegment(segList[i], call.ret[1][k], call.ret[1][k + 1])

----------------------------------------------------------------------------
(* Claims about the case table of computeSegments                          *)

(* The two corners of edge e of cell (r, c): 0 top, 1 right, 2 bottom,     *)
(* 3 left                                                                  *)
EdgeCorners(g, r, c, e) ==
    CASE e = 0 -> <<g[r][c], g[r][c + 1]>>
      [] e = 1 -> <<g[r][c + 1], g[r + 1][c + 1]>>
      [] e = 2 -> <<g[r + 1][c], g[r + 1][c + 1]>>
      [] e = 3 -> <<g[r][c], g[r + 1][c]>>

(* The level passes between the two corners of edge e: one has a value     *)
(* >= level and the other has not                                          *)
Crossed(g, r, c, e, level) ==
    RLe(level, EdgeCorners(g, r, c, e)[1]) # RLe(level, EdgeCorners(g, r, c, e)[2])

(* 8 for top-left, 4 for top-right, 2 for bottom-right, 1 for bottom-left, *)
(* summed over the corners with a value >= level                           *)
WeightedIndex(g, r, c, level) ==
    (IF RLe(level, g[r][c]) THEN 8 ELSE 0)
    + (IF RLe(level, g[r][c + 1]) THEN 4 ELSE 0)
    + (IF RLe(level, g[r + 1][c + 1]) THEN 2 ELSE 0)
    + (IF RLe(level, g[r + 1][c]) THEN 1 ELSE 0)

(* How many segment ends the table puts on edge e in case idx              *)
TableEnds(idx, e) ==
    Cardinality({km \in (1..Len(MS_SEGMENTS[idx])) \X {1, 2} :
                    MS_SEGMENTS[idx][km[1]][km[2]] = e})

(* The point (x, y) lies on edge e of cell (r, c)                          *)
OnEdge(x, y, r, c, e) ==
    CASE e = 0 -> y = R(r) /\ RLe(R(c), x) /\ RLe(x, R(c + 1))
      [] e = 1 -> x = R(c + 1) /\ RLe(R(r), y) /\ RLe(y, R(r + 1))
      [] e = 2 -> y = R(r + 1) /\ RLe(R(c), x) /\ RLe(x, R(c + 1))
      [] e = 3 -> x = R(c) /\ RLe(R(r), y) /\ RLe(y, R(r + 1))

(* Segment s joins two different crossed edges of cell (r, c)              *)
JoinsCrossedEdges(g, r, c, level, s) ==
    \E e1, e2 \in 0..3 :
        /\ e1 # e2
        /\ Crossed(g, r, c, e1, level) /\ Crossed(g, r, c, e2, level)
        /\ OnEdge(s.x1, s.y1, r, c, e1)
        /\ OnEdge(s.x2, s.y2, r, c, e2)

(* From cell (r, c) onwards, in the order of the cell loop, with segs the  *)
(* part of the result not yet accounted for: each complete cell has the    *)
(* weighted case index, its table entry ends once on each crossed edge and *)
(* on no other, holds 0, 2 or 1 pairs by the case, and that many segments  *)
(* come next in the result, each joining two crossed edges of the cell.    *)
RECURSIVE CellsFollowTable(_, _, _, _, _, _, _)
CellsFollowTable(g, nrows, ncols, level, r, c, segs) ==
    IF r >= nrows - 1 THEN segs = <<>>
    ELSE IF c >= ncols - 1 THEN CellsFollowTable(g, nrows, ncols, level, r + 1, 0, segs)
    ELSE IF ~CompleteCell(g, r, c)
    THEN CellsFollowTable(g, nrows, ncols, level, r, c + 1, segs)
    ELSE LET idx == WeightedIndex(g, r, c, level)
             n == IF idx \in {0, 15} THEN 0 ELSE IF idx \in {5, 10} THEN 2 ELSE 1
         IN  /\ caseIdx(g[r][c], g[r][c + 1], g[r + 1][c], g[r + 1][c + 1], level) = idx
             /\ Len(MS_SEGMENTS[idx]) = n
             /\ \A e \in 0..3 :
                   TableEnds(idx, e) = IF Crossed(g, r, c, e, level) THEN 1 ELSE 0
             /\ Len(segs) >= n
             /\ \A k \in 1..n : JoinsCrossedEdges(g, r, c, level, segs[k])
             /\ CellsFollowTable(g, nrows, ncols, level, r, c + 1,
                                 SubSeq(segs, n + 1, Len(segs)))

(* C20: for every complete cell, computeSegments counts a corner as above  *)
(* when its value >= level, forms the case index with weights top-left 8,  *)
(* top-right 4, bottom-right 2, bottom-left 1, and the table agrees with   *)
(* that: an edge whose corners are classified differently carries exactly  *)
(* one segment end, an edge whose corners are classified alike carries     *)
(* none, cases 0 and 15 emit nothing, cases 5 and 10 emit two segments and *)
(* every other case emits one.                                             *)
C20_TableFollowsClassification ==
    call.fn = "computeSegments" =>
        CellsFollowTable(grid, rows, cols, call.level, 0, 0, call.ret)

(* A cell of case 5 beside a cell of case 10, two segments from each       *)
C20_Witness ==
    /\ call.fn = "computeSegments"
    /\ rows = 2 /\ cols = 3
    /\ CompleteCell(grid, 0, 0) /\ CompleteCell(grid, 0, 1)
    /\ WeightedIndex(grid, 0, 0, call.level) = 5
    /\ WeightedIndex(grid, 0, 1, call.level) = 10
    /\ Len(call.ret) = 4

----------------------------------------------------------------------------
(* Claims about the saddle cases and the crossings of computeSegments      *)

(* Number of segments the complete cells before (r, c) in the order of the *)
(* cell loop put in the result, by their case: 0, 2 or 1                   *)
RECURSIVE EmittedBefore(_, _, _, _, _, _, _)
EmittedBefore(g, ncols, level, r, c, r0, c0) ==
    IF r0 = r /\ c0 = c THEN 0
    ELSE IF c0 >= ncols - 1 THEN EmittedBefore(g, ncols, level, r, c, r0 + 1, 0)
    ELSE (IF CompleteCell(g, r0, c0)
          THEN LET idx == WeightedIndex(g, r0, c0, level)
               IN  IF idx \in {0, 15} THEN 0 ELSE IF idx \in {5, 10} THEN 2 ELSE 1
          ELSE 0)
         + EmittedBefore(g, ncols, level, r, c, r0, c0 + 1)

(* Segment s has one end on edge ea and the other on edge eb of cell (r, c) *)
JoinsEdges(s, r, c, ea, eb) ==
    \/ OnEdge(s.x1, s.y1, r, c, ea) /\ OnEdge(s.x2, s.y2, r, c, eb)
    \/ OnEdge(s.x1, s.y1, r, c, eb) /\ OnEdge(s.x2, s.y2, r, c, ea)

SaddleCell(g, r, c, level) ==
    CompleteCell(g, r, c) /\ WeightedIndex(g, r, c, level) \in {5, 10}

(* Four times the level is at most the sum of the four corners of (r, c)   *)
MeanAbove(g, r, c, level) ==
    RLe(RMul(R(4), level),
        RAdd(RAdd(g[r][c], g[r][c + 1]), RAdd(g[r + 1][c], g[r + 1][c + 1])))

Fraction(g, r, c, e, level) ==
    RDiv(RSub(level, EdgeCorners(g, r, c, e)[1]),
         RSub(EdgeCorners(g, r, c, e)[2], EdgeCorners(g, r, c, e)[1]))

(* The point of edge e of cell (r, c) at fraction t, in grid coordinates   *)
PointAt(r, c, e, t) ==
    CASE e = 0 -> <<RAdd(R(c), t), R(r)>>
      [] e = 1 -> <<R(c + 1), RAdd(R(r), t)>>
      [] e = 2 -> <<RAdd(R(c), t), R(r + 1)>>
      [] e = 3 -> <<R(c), RAdd(R(r), t)>>

UnitFraction(t) == isFinite(t) /\ RLe(R(0), t) /\ RLe(t, R(1))

InCell(x, y, r, c) ==
    /\ RLe(R(c), x) /\ RLe(x, R(c + 1))
    /\ RLe(R(r), y) /\ RLe(y, R(r + 1))

CaseCount(idx) == IF idx \in {0, 15} THEN 0 ELSE IF idx \in {5, 10} THEN 2 ELSE 1

(* C22: on a grid of finite values, each end of each emitted segment is    *)
(* the point of its edge at t = (level - v_a)/(v_b - v_a), t is finite     *)
(* with 0 <= t <= 1, and so the end lies on the boundary of its own cell:  *)
(* c <= x <= c+1 and r <= y <= r+1. No segment of the table is dropped.    *)
C22_FractionWithinUnit ==
    call.fn = "computeSegments" =>
        /\ \A r \in 0..(rows - 2), c \in 0..(cols - 2) :
              CompleteCell(grid, r, c) =>
                LET idx == WeightedIndex(grid, r, c, call.level)
                    off == EmittedBefore(grid, cols, call.level, r, c, 0, 0)
                IN  /\ Len(call.ret) >= off + CaseCount(idx)
                    /\ \A k \in 1..CaseCount(idx) :
                          LET e1 == MS_SEGMENTS[idx][k][1]
                              e2 == MS_SEGMENTS[idx][k][2]
                              t1 == Fraction(grid, r, c, e1, call.level)
                              t2 == Fraction(grid, r, c, e2, call.level)
                              s == call.ret[off + k]
                          IN  /\ UnitFraction(t1) /\ UnitFraction(t2)
                              /\ <<s.x1, s.y1>> = PointAt(r, c, e1, t1)
                              /\ <<s.x2, s.y2>> = PointAt(r, c, e2, t2)
                              /\ InCell(s.x1, s.y1, r, c)
                              /\ InCell(s.x2, s.y2, r, c)
        /\ Len(call.ret) = EmittedBefore(grid, cols, call.level, rows - 1, 0, 0, 0)

(* A segment with one end at a grid point (t = 0 or t = 1) and the other   *)
(* strictly inside an edge                                                 *)
C22_Witness ==
    /\ call.fn = "computeSegments"
    /\ rows = 2 /\ cols = 2
    /\ CompleteCell(grid, 0, 0)
    /\ Len(call.ret) = 1
    /\ {call.ret[1].x1, call.ret[1].y1} \subseteq {R(0), R(1)}
    /\ \E t \in {call.ret[1].x2, call.ret[1].y2} : RLt(R(0), t) /\ RLt(t, R(1))

----------------------------------------------------------------------------
(* Claims about closed loops and the ends of merged polylines              *)

(* The end points reached from those of S along at most n segments         *)
RECURSIVE ReachedFrom(_, _, _)
ReachedFrom(segs, S, n) ==
    IF n = 0 THEN S
    ELSE ReachedFrom(segs,
                     S \cup {q \in EndPoints(segs) :
                                \E p \in S : SegmentsAt(segs, p) \cap SegmentsAt(segs, q) # {}},
                     n - 1)

(* One simple closed cycle: no segment of length zero, every end point is  *)
(* shared by exactly two segments, and the segments hang together          *)
SimpleClosedCycle(segs) ==
    /\ Len(segs) >= 2
    /\ \A i \in 1..Len(segs) : <<segs[i].x1, segs[i].y1>> # <<segs[i].x2, segs[i].y2>>
    /\ \A p \in EndPoints(segs) : Cardinality(SegmentsAt(segs, p)) = 2
    /\ ReachedFrom(segs, {<<segs[1].x1, segs[1].y1>>}, Len(segs)) = EndPoints(segs)

(* No two different end points round to the same key                       *)
EndPointsApart(segs) ==
    \A p, q \in EndPoints(segs) :
        key(p[1], p[2], Tol) = key(q[1], q[2], Tol) => p = q

OneClosedPolyline(polylines, n) ==
    /\ Len(polylines) = 1
    /\ Len(polylines[1]) = n + 1
    /\ polylines[1][1] = polylines[1][n + 1]

(* C23 as stated: n segments that form one simple closed cycle, in any     *)
(* order and orientation, give exactly one polyline of n+1 points whose    *)
(* first point equals its last point.                                      *)
C23_CycleGivesOneClosedPolyline ==
    (call.fn = "mergeSegments" /\ SimpleClosedCycle(segList)) =>
        OneClosedPolyline(call.ret, Len(segList))

(* C23 amended: the same for a simple closed cycle no two different end    *)
(* points of which round to the same key at the tolerance.                 *)
C23_ApartCycleGivesOneClosedPolyline ==
    (call.fn = "mergeSegments" /\ SimpleClosedCycle(segList) /\ EndPointsApart(segList)) =>
        OneClosedPolyline(call.ret, Len(segList))

(* A cycle of four segments whose second segment does not touch the first  *)
(* and whose segments do not all run the same way round, merged            *)
C23_Witness ==
    /\ call.fn = "mergeSegments"
    /\ Len(segList) = 4
    /\ SimpleClosedCycle(segList)
    /\ EndPointsApart(segList)
    /\ SegmentsAt(segList, <<segList[1].x1, segList[1].y1>>) = {1, 3}
    /\ SegmentsAt(segList, <<segList[1].x2, segList[1].y2>>) = {1, 4}
    /\ <<segList[4].x2, segList[4].y2>> = <<segList[1].x2, segList[1].y2>>
    /\ OneClosedPolyline(call.ret, 4)

----------------------------------------------------------------------------
(* Claims about the curved paths of polylineToPath                         *)

(* The text f shows the number x to 3 decimals                             *)
Shows(f, x) ==
    /\ RMul(Printed(f), R(1000))[2] = 1
    /\ RLe(RAbs(RSub(Printed(f), x)), <<1, 2000>>)

ShowsPoint(fp, x, y) == Shows(fp[1], x) /\ Shows(fp[2], y)

(* The point before p1 = pts[i] and the point after p2 = pts[i + 1], each  *)
(* replaced by the first or last point when it would fall outside          *)
PointBefore(i) == IF i - 1 < 1 THEN pts[1] ELSE pts[i - 1]

PointAfter(i) == IF i + 2 > Len(pts) THEN pts[Len(pts)] ELSE pts[i + 2]

(* a + (b - c) * s / 6                                                     *)
Lead(a, b, c, s) == RAdd(a, RDiv(RMul(RSub(b, c), s), R(6)))

(* a - (b - c) * s / 6                                                     *)
Trail(a, b, c, s) == RSub(a, RDiv(RMul(RSub(b, c), s), R(6)))

CurvedCase ==
    /\ Len(pts) >= 3
    /\ RLt(R(0), call.smoothing)
    /\ RLe(call.smoothing, R(1))

----------------------------------------------------------------------------
(* Claims about the ends of contour lines                                  *)

FullGrid ==
    \A r \in 0..(rows - 1), c \in 0..(cols - 1) : grid[r][c] # NULL

(* p lies on the outer boundary of the grid                                *)
OnBoundary(p) ==
    \/ p[1] = R(0) \/ p[1] = R(cols - 1)
    \/ p[2] = R(0) \/ p[2] = R(rows - 1)

KeyOf(p) == key(p[1], p[2], Tol)

(* C25 as stated: on a grid with no absent values every returned polyline  *)
(* is closed (first point = last point) or has both end points on the      *)
(* outer boundary: x = 0, x = cols-1, y = 0 or y = rows-1.                 *)
C25_ClosedOrEndsOnBoundary ==
    FullGrid =>
        \A i \in 1..Len(gc.result) :
            \A j \in 1..Len(gc.result[i].polylines) :
                LET poly == gc.result[i].polylines[j]
                IN  \/ poly[1] = poly[Len(poly)]
                    \/ OnBoundary(poly[1]) /\ OnBoundary(poly[Len(poly)])

(* C25 amended: the same once the end points are rounded to the merge      *)
(* tolerance: the first and last point round to the same key, or both      *)
(* round to a key on the outer boundary.                                   *)
C25_ClosedOrEndsOnBoundaryWithinTol ==
    FullGrid =>
        \A i \in 1..Len(gc.result) :
            \A j \in 1..Len(gc.result[i].polylines) :
                LET poly == gc.result[i].polylines[j]
                IN  \/ KeyOf(poly[1]) = KeyOf(poly[Len(poly)])
                    \/ OnBoundary(KeyOf(poly[1])) /\ OnBoundary(KeyOf(poly[Len(poly)]))

(* A 3x3 grid returned with a closed line through the middle grid point,   *)
(* which lies on the level, and a line from boundary to boundary           *)
C25_Witness ==
    /\ gc.pc = "done"
    /\ rows = 3 /\ cols = 3
    /\ FullGrid
    /\ grid[1][1] = R(0)
    /\ Len(gc.result) = 1
    /\ gc.result[1].level = R(0)
    /\ \E j, k \in 1..Len(gc.result[1].polylines) :
          LET ring == gc.result[1].polylines[j]
              line == gc.result[1].polylines[k]
          IN  /\ Len(ring) >= 3
              /\ ring[1] = ring[Len(ring)]
              /\ ~OnBoundary(ring[1])
              /\ line[1] # line[Len(line)]
              /\ OnBoundary(line[1]) /\ OnBoundary(line[Len(line)])

(* The first and the last point of a polyline                              *)
Ends(poly) == {poly[1], poly[Len(poly)]}

(* C26: the output of mergeSegments is maximal: no end point of one        *)
(* polyline has the same key at the tolerance as an end point of another   *)
(* polyline, whatever the order of the input and however many segments     *)
(* meet at one point.                                                      *)
C26_NoTwoPolylinesJoinable ==
    call.fn = "mergeSegments" =>
        \A i, j \in 1..Len(call.ret) :
            i # j => \A p \in Ends(call.ret[i]), q \in Ends(call.ret[j]) :
                        KeyOf(p) # KeyOf(q)

(* Three segments that meet at one point: two of them make one polyline    *)
(* through it and the third is left with an end there                      *)
C26_Witness ==
    /\ call.fn = "mergeSegments"
    /\ Len(segList) = 3
    /\ Len(call.ret) = 2
    /\ Len(call.ret[1]) = 3
    /\ Len(call.ret[2]) = 2
    /\ Cardinality({KeyOf(call.ret[1][1]), KeyOf(call.ret[1][2]),
                     KeyOf(call.ret[1][3]), KeyOf(call.ret[2][1])}) = 4
    /\ KeyOf(call.ret[2][2]) = KeyOf(call.ret[1][2])
    /\ call.ret[2][2] # call.ret[1][2]

----------------------------------------------------------------------------
(* Claims about following the flow directions                              *)

NeighbourOffsets == {o \in (-1..1) \X (-1..1) : o # <<0, 0>>}

(* The point the direction at p points to: p moved by the offset (dr, dc)  *)
(* whose angle atan2(dr, dc) is the direction                              *)
PointedTo(flow, p) ==
    LET o == CHOOSE o \in NeighbourOffsets : atan2(o[1], o[2]) = flow[p[1]][p[2]]
    IN  <<p[1] + o[1], p[2] + o[2]>>

GridPoints == (0..(rows - 1)) \X (0..(cols - 1))

(* The points met when the directions are followed from p for at most n    *)
(* steps, p first, up to the first point without a direction               *)
RECURSIVE Followed(_, _, _)
Followed(flow, p, n) ==
    IF n = 0 \/ flow[p[1]][p[2]] = NULL THEN <<p>>
    ELSE <<p>> \o Followed(flow, PointedTo(flow, p), n - 1)

(* C27: for positive spacing, wherever computeFlowDirection gives a        *)
(* direction, the neighbour it points to is inside the grid, present and   *)
(* strictly lower than the point; so following the directions from any     *)
(* point never comes back to a point and reaches a point without a         *)
(* direction within as many steps as the grid has points.                  *)
C27_FlowGoesStrictlyDown ==
    (call.fn = "computeFlowDirection" /\ RLt(R(0), call.spacing)) =>
        /\ \A p \in GridPoints :
              call.ret[p[1]][p[2]] # NULL =>
                LET q == PointedTo(call.ret, p)
                IN  /\ \E o \in NeighbourOffsets :
                          atan2(o[1], o[2]) = call.ret[p[1]][p[2]]
                    /\ q \in GridPoints
                    /\ grid[q[1]][q[2]] # NULL
                    /\ grid[p[1]][p[2]] # NULL
                    /\ RLt(grid[q[1]][q[2]], grid[p[1]][p[2]])
        /\ \A p \in GridPoints :
              LET path == Followed(call.ret, p, rows * cols)
                  last == path[Len(path)]
              IN  /\ call.ret[last[1]][last[2]] = NULL
                  /\ \A i, j \in 1..Len(path) : path[i] = path[j] => i = j

(* A point whose direction leads to a point that has a direction too: the  *)
(* flow is followed for two steps before it ends                           *)
C27_Witness ==
    /\ call.fn = "computeFlowDirection"
    /\ rows = 3 /\ cols = 3
    /\ \E p \in GridPoints :
          /\ call.ret[p[1]][p[2]] # NULL
          /\ Len(Followed(call.ret, p, 9)) = 3
          /\ Followed(call.ret, p, 9)[3][1] # p[1]
          /\ Followed(call.ret, p, 9)[3][2] # p[2]

----------------------------------------------------------------------------
(* Claims about the termination of generateContours                        *)

(* C28: generateContours terminates for every grid and every positive      *)
(* interval, however small the interval is beside the 6-decimal rounding   *)
(* of the level: from one iteration of the level loop to the next the      *)
(* level strictly increases, until it exceeds the maximum elevation.       *)
C28_LevelStrictlyIncreases ==
    [][(gc.pc = "loop" /\ gc'.pc = "loop") => RLt(gc.level, gc'.level)]_vars

(* C29: every polyline of every level that generateContours has put in its *)
(* result holds at least two different points; none is a run of segments   *)
(* of length zero at one place, also when the level is the value of a grid *)
(* point that stands alone above its neighbours.                           *)
C29_TwoDistinctPoints ==
    \A i \in 1..Len(gc.result) :
        \A n \in 1..Len(gc.result[i].polylines) :
            LET line == gc.result[i].polylines[n]
            IN  \E j \in 1..Len(line), k \in 1..Len(line) :
                    line[j] # line[k]

----------------------------------------------------------------------------
(* The application (app.js) and its spreadsheet (spreadsheet.js)           *)
(* grid, rows and cols are AppState.grid, AppState.rows and AppState.cols; *)
(* Spreadsheet holds the rows, cols and grid of the Spreadsheet module.    *)
(* An action is one event handler run to its end, or to the exception that *)
(* ends it; call keeps the arguments of every call of                      *)
(* ContourEngine.generateContours the handler has made, in order.  The     *)
(* project is in elevation mode, the spreadsheet view is the current one   *)
(* and the contour interval is the default of the wizard.                  *)

(* Largest number of rows and of columns of a project, a file or a demo    *)
AppMaxSide == 3

(* The elevations typed, imported and filled in                            *)
AppElevs == {R(1)}

(* AppState.contourInterval                                                *)
AppContourInterval == R(1)

(* The sizes of the demo menu (4 to 8 in the source), within the bound     *)
DemoSizes == 2..AppMaxSide

(* g.length and g[0].length                                                *)
length(g) == Cardinality(DOMAIN g)

rowLength(g) == IF length(g) = 0 THEN 0 ELSE Cardinality(DOMAIN g[0])

(* Array.from({ length: r }, () => Array(c).fill(null))                    *)
emptyGrid(r, c) == [i \in 0..(r - 1) |-> [j \in 0..(c - 1) |-> NULL]]

(* grid.flat().some(v => v != null)                                        *)
someValue(g) == \E r \in DOMAIN g : \E c \in DOMAIN g[r] : g[r][c] # NULL

(* Math.max(2, Math.min(30, n))                                            *)
clampSide(n) == IF n < 2 THEN 2 ELSE IF n > 30 THEN 30 ELSE n

(* Whether generateContours(g, nrows, ncols, interval, _) ends with a      *)
(* TypeError: it passes the early returns, its loop takes a first level,   *)
(* and computeSegments reads grid[r + 1][c] for a row the grid does not    *)
(* have.  A column the grid does not have reads as undefined and the cell  *)
(* is skipped.                                                             *)
generateContoursThrows(g, nrows, ncols, interval) ==
    LET vals == validValues(g, length(g), rowLength(g))
    IN  /\ ~(nrows < 2 \/ ncols < 2)
        /\ Len(vals) >= 4
        /\ RLe(RMul(R(Ceil(RDiv(MathMin(vals), interval))), interval),
               MathMax(vals))
        /\ \E r \in 0..(nrows - 2) : r + 1 >= length(g)

(* The state a handler works on: a is AppState, s the Spreadsheet module,  *)
(* calls the calls of generateContours made so far, threw whether an       *)
(* exception is on its way out of the handler                              *)
handlerState == [a |-> [grid |-> grid, rows |-> rows, cols |-> cols],
                 s |-> Spreadsheet, calls |-> <<>>, threw |-> FALSE]

(* regenerateContours                                                      *)
regenerateContours(st) ==
    IF st.a.grid = <<>> THEN st
    ELSE [st EXCEPT
            !.calls = Append(@, [grid |-> st.a.grid, rows |-> st.a.rows,
                                 cols |-> st.a.cols]),
            !.threw = generateContoursThrows(st.a.grid, st.a.rows, st.a.cols,
                                             AppContourInterval)]

(* onGridChange(newGrid): the statistics do not throw, and in the          *)
(* spreadsheet view nothing is drawn again                                 *)
onGridChange(st, newGrid) ==
    regenerateContours([st EXCEPT !.a.grid = newGrid])

(* Spreadsheet.init(_, r, c, onGridChange, _)                              *)
init(st, r, c) ==
    [st EXCEPT !.s = [rows |-> r, cols |-> c, grid |-> emptyGrid(r, c)]]

(* Spreadsheet.setGrid(newGrid)                                            *)
setGrid(st, newGrid) ==
    onGridChange([st EXCEPT !.s.grid = newGrid], newGrid)

(* launchApp                                                               *)
launchApp(st) ==
    LET st1 == init(st, st.a.rows, st.a.cols)
    IN  IF st.a.grid # <<>> /\ someValue(st.a.grid)
        THEN setGrid(st1, st.a.grid)
        ELSE st1

(* Spreadsheet.fillDemo(type): every sample of the spreadsheet's grid gets *)
(* a number; the surfaces of the source are stood for by a level one       *)
fillDemo(st, z) ==
    LET filled == [r \in 0..(st.s.rows - 1) |->
                      [c \in 0..(st.s.cols - 1) |-> z]]
    IN  onGridChange([st EXCEPT !.s.grid = filled], filled)

(* Spreadsheet.clearAll                                                    *)
clearAll(st) ==
    LET cleared == emptyGrid(st.s.rows, st.s.cols)
    IN  onGridChange([st EXCEPT !.s.grid = cleared], cleared)

Max(S) == CHOOSE x \in S : \A y \in S : y <= x

(* Spreadsheet.importCSV(text), text being the lines PointID,Row,Col,      *)
(* Elevation of the points given: the grid is as large as the largest row  *)
(* and column named, and the callback runs before the function returns     *)
importCSV(st, points) ==
    LET maxR == Max({0} \cup {p.r : p \in points})
        maxC == Max({0} \cup {p.c : p \in points})
        filled == [r \in 0..maxR |-> [c \in 0..maxC |->
                      IF \E p \in points : p.r = r /\ p.c = c
                      THEN (CHOOSE p \in points : p.r = r /\ p.c = c).rl
                      ELSE NULL]]
    IN  onGridChange([st EXCEPT !.s = [rows |-> maxR + 1, cols |-> maxC + 1,
                                       grid |-> filled]], filled)

(* handleFileImport for a project file { project: { rows, cols }, grid }   *)
importProject(st, file) ==
    launchApp([st EXCEPT !.a = [grid |-> file.grid, rows |-> file.rows,
                                cols |-> file.cols]])

(* handleFileImport for a CSV file of at least one point                   *)
importPoints(st, points) ==
    LET st1 == importCSV(st, points)
    IN  IF st1.threw THEN st1
        ELSE regenerateContours([st1 EXCEPT !.a = [grid |-> st1.s.grid,
                                                   rows |-> st1.s.rows,
                                                   cols |-> st1.s.cols]])

(* Grids of a given shape with at most one absent sample                   *)
AppGrids ==
    UNION {{g \in [0..(sh[1] - 1) -> [0..(sh[2] - 1) -> AppElevs \cup {NULL}]] :
              Cardinality({rc \in (0..(sh[1] - 1)) \X (0..(sh[2] - 1)) :
                              g[rc[1]][rc[2]] = NULL}) <= 1} :
           sh \in (1..AppMaxSide) \X (1..AppMaxSide)}

(* CSV files as Spreadsheet.exportCSV writes them: one line per sample     *)
CsvFiles ==
    {{[r |-> r, c |-> c, rl |-> g[r][c]] :
         r \in DOMAIN g, c \in DOMAIN g[0]} : g \in AppGrids}

(* Project files as ExportEngine.exportJSON writes them from a project     *)
(* whose rows and cols are those of its grid                               *)
JsonFiles ==
    {[rows |-> length(g), cols |-> rowLength(g), grid |-> g] : g \in AppGrids}

(* What a handler leaves behind                                            *)
Leaves(fn, st) ==
    /\ grid' = st.a.grid
    /\ rows' = st.a.rows
    /\ cols' = st.a.cols
    /\ Spreadsheet' = st.s
    /\ call' = [fn |-> fn, calls |-> st.calls, threw |-> st.threw]
    /\ UNCHANGED <<pts, segList, gc>>

(* The wizard's Create Project button                                      *)
StartProject ==
    /\ gc.pc = "idle"
    /\ \E r \in 1..AppMaxSide, c \in 1..AppMaxSide :
          LET st == [handlerState EXCEPT
                        !.a = [grid |-> emptyGrid(clampSide(r), clampSide(c)),
                               rows |-> clampSide(r), cols |-> clampSide(c)]]
          IN  Leaves("startProject", launchApp(st))

(* A sample typed into a cell of the table or deleted from it              *)
HandleChange ==
    /\ Spreadsheet.rows > 0
    /\ \E r \in 0..(Spreadsheet.rows - 1), c \in 0..(Spreadsheet.cols - 1),
          inputVal \in AppElevs \cup {NULL} :
          LET edited == [Spreadsheet.grid EXCEPT ![r][c] = inputVal]
          IN  Leaves("handleChange",
                     onGridChange([handlerState EXCEPT !.s.grid = edited],
                                  edited))

(* A size chosen in the demo menu                                          *)
DemoPicker ==
    /\ Spreadsheet.rows > 0
    /\ \E size \in DemoSizes, z \in AppElevs :
          LET st == IF size # rows
                    THEN init([handlerState EXCEPT !.a.rows = size,
                                                   !.a.cols = size],
                              size, size)
                    ELSE handlerState
          IN  Leaves("fillDemo", fillDemo(st, z))

(* The Clear button, confirmed                                             *)
ClearData ==
    /\ Spreadsheet.rows > 0
    /\ Leaves("clearAll", clearAll(handlerState))

(* The Regenerate button; a change of the interval or of the multiplier    *)
(* makes the same call                                                     *)
RegenContour ==
    /\ Spreadsheet.rows > 0
    /\ Leaves("regenerateContours", regenerateContours(handlerState))

(* A file chosen for import, once it has been read                         *)
HandleFileImport ==
    /\ Spreadsheet.rows > 0
    /\ \/ \E file \in JsonFiles :
             Leaves("handleFileImport", importProject(handlerState, file))
       \/ \E points \in CsvFiles :
             Leaves("handleFileImport", importPoints(handlerState, points))

(* boot: AppState as it is declared, the spreadsheet not yet set up        *)
InitApp ==
    /\ grid = <<>>
    /\ rows = 6
    /\ cols = 6
    /\ Spreadsheet = noSpreadsheet
    /\ pts = <<>>
    /\ segList = <<>>
    /\ gc = gcIdle
    /\ call = [fn |-> "boot", calls |-> <<>>, threw |-> FALSE]

NextApp ==
    \/ StartProject
    \/ HandleChange
    \/ DemoPicker
    \/ ClearData
    \/ RegenContour
    \/ HandleFileImport

SpecApp == InitApp /\ [][NextApp]_vars

(* C30: at every call the application makes of generateContours, the rows  *)
(* and cols passed are the numbers of rows and of columns of the grid      *)
(* passed, whatever projects were created, cells edited, demos filled in,  *)
(* data cleared and CSV or project files imported before, a CSV file of    *)
(* another size than the current grid included.                            *)
C30_CallDimensionsAreTheGrids ==
    \A i \in 1..Len(call.calls) :
        /\ call.calls[i].rows = length(call.calls[i].grid)
        /\ call.calls[i].cols = rowLength(call.calls[i].grid)

====
